---------------------------- MODULE Spec2Model ----------------------------
(***************************************************************************)
(* knowledge-mcp: the storage backend contract (Add, Update, Delete,       *)
(* IncrementUseCount) of the structured-store backend (backend_sqlite.go)  *)
(* and of the remote document-store backend (backend_chroma.go), as a      *)
(* state machine of concurrent calls on one shared backend instance.       *)
(*                                                                         *)
(* A call of the structured store is a clock read (time.Now()) followed by *)
(* one SQL statement, which the embedded engine executes atomically.  A    *)
(* call of the remote backend is a clock read followed by one or two HTTP  *)
(* requests.  Every statement and every request may fail (engine error,    *)
(* timeout, status >= 400), and other calls may run between any two steps. *)
(* The collection store ignores an add whose id exists and an update whose *)
(* id does not exist.                                                      *)
(*                                                                         *)
(* The tools (tools.go) are modelled on top: one step per tools/call, from *)
(* the decoding of its arguments to its ToolResult, with the reads         *)
(* (Search, List, Stats) of both backends (SpecTools, SpecShelf).  The     *)
(* structured store's full-text index, with the triggers migrate managed   *)
(* to create, is modelled in SpecIndex, and the JSON-RPC transport         *)
(* (server.go), single requests and batches, in SpecRPC.                   *)
(* The remote backend's exchanges with the embedding service and the       *)
(* collection store (what a request carries, what a response holds) are    *)
(* modelled in SpecRemote, and the resolution of the collection by two     *)
(* instances constructed at once in SpecCollections.                       *)
(***************************************************************************)
EXTENDS Integers, Sequences, FiniteSets, TLC

VARIABLES
    backend,   \* "sqlite" | "chroma": the implementation NewBackend constructed
    now,       \* the wall clock, in ticks (time.Now())
    store,     \* id -> stored row (sqlite table learnings / chroma collection)
    seq,       \* sqlite AUTOINCREMENT counter: the largest rowid ever assigned
    pc,        \* per caller: the step its call in flight is at
    call,      \* per caller: the locals of its call in flight
    err,       \* whether the call that returned last met an error (Add, Update
               \* and Delete return it, IncrementUseCount drops it)
    issued,    \* ids returned by an Add that returned without error
    gone,      \* ids that a Delete that returned without error removed
    incs,      \* sqlite: id -> IncrementUseCount statements executed on the row
    race,      \* SpecRace: the record raced on and each caller's planned call
    result,    \* SpecTools, SpecShelf: what the tool call dispatched last did
               \* and gave its client
    rpc,       \* SpecRPC: the HTTP request handled last or being handled, the
               \* elements dispatched and the response body written
    fts,       \* SpecIndex: the full-text index of the structured store: what
               \* migrate created and the entries the triggers keep
    remote     \* SpecRemote, SpecCollections: the configuration of the remote
               \* backend, the collections of the collection store and the
               \* collection each backend instance resolved

vars == <<backend, now, store, seq, pc, call, err, issued, gone, incs, race, result,
          rpc, fts, remote>>

---------------------------------------------------------------------------
(* Bounds *)

MaxClock == 2      \* the clock runs over 0..MaxClock ticks
TicksPerSec == 2   \* clock ticks per second (RFC 3339 keeps whole seconds)
MaxAdds == 2       \* learnings added by one caller (SpecSeq, SpecShelf)
MaxConcAdds == 1   \* learnings added by concurrent callers (Spec), SpecTools
MaxUse == 2        \* use_count is not incremented beyond this
MaxIndexUse == 1   \* nor beyond this under SpecIndex

Procs == {1, 2}

AddArgs ==
    { [category |-> "technical", content |-> "c1", tags |-> "t1", confidence |-> 9],
      [category |-> "general", content |-> "c2", tags |-> "", confidence |-> 8] }

UpdArgs ==
    { [content |-> "c3", tags |-> "t2", confidence |-> 7] }

\* the arguments two racing Updates choose from
RaceUpdArgs ==
    UpdArgs \cup { [content |-> "c4", tags |-> "", confidence |-> 8] }

\* ids callers pass: the decimal strings the backend in use can assign
IdPool(maxAdds) ==
    IF backend = "sqlite" THEN { ToString(n) : n \in 1..maxAdds }
    ELSE { ToString(n) : n \in 0..MaxClock }

---------------------------------------------------------------------------
(* The Learning value and its stored forms *)

Learning(id, category, content, tags, confidence, use_count, created_at, updated_at) ==
    [ id |-> id, category |-> category, content |-> content, tags |-> tags,
      confidence |-> confidence, use_count |-> use_count,
      created_at |-> created_at, updated_at |-> updated_at ]

Row(category, content, tags, confidence, use_count, created_at, updated_at) ==
    [ category |-> category, content |-> content, tags |-> tags,
      confidence |-> confidence, use_count |-> use_count,
      created_at |-> created_at, updated_at |-> updated_at ]

Nil == << >>

NoRace == [ id |-> "", row |-> Nil, plan |-> << >> ]

NoCall ==
    [ op |-> "none", id |-> "", category |-> "", content |-> "", tags |-> "",
      confidence |-> 0, now |-> 0, existing |-> Nil ]

\* SpecRace: a caller that has not made its planned call yet
Planned == [NoCall EXCEPT !.op = "planned"]

\* no HTTP request handled yet.  kind: "single" or "batch"; reqs: the
\* decoded envelopes; log: what dispatch returned for each element dispatched
\* so far, in order; responses: the batch's responses so far; done: the
\* handler returned; aborted: it panicked; body: the response body written
NoBody == [encoding |-> "none", responses |-> << >>]
NoRPC ==
    [ kind |-> "none", reqs |-> << >>, log |-> << >>, responses |-> << >>,
      done |-> FALSE, aborted |-> FALSE, body |-> NoBody ]

\* the full-text index is not modelled (every specification but SpecIndex)
NoFTS == [ table |-> FALSE, triggers |-> {}, index |-> << >> ]

\* the remote backend as every specification but SpecRemote and
\* SpecCollections has it: no embedding model configured, no instance under
\* construction.  model: cfg.EmbeddingModel # ""; collections: the
\* collections of the store, each a name and an id; and per instance under
\* construction: at, its position in NewChromaBackend; list, what came of
\* its list request; collectionID, the field of that name ("": not set);
\* posted, whether it sent the create-or-get request; constructed, what NewChromaBackend returned and
\* cause, why it returned an error; used, the collection ids of the paths it
\* sent requests to afterwards
NoRemote ==
    [ model |-> FALSE, collections |-> {}, at |-> << >>, list |-> << >>,
      collectionID |-> << >>, posted |-> << >>, constructed |-> << >>, cause |-> << >>, used |-> << >> ]

\* no tool call dispatched yet.  tool, args: the call; decoded: its arguments
\* decoded; called: the backend operations it invoked, in order; passed: the
\* arguments Add or Update received; existing: what the remote Update
\* fetched; learnings, stats: what Search, List or Stats returned; dropped:
\* the ids whose IncrementUseCount failed; total: the total get_stats
\* renders; requests: the requests the remote backend's operation sent to
\* the collection store, in order, each with its success;
\* aborted: the handler panicked and the client got no result;
\* isError, text, cause: the ToolResult (its flag, its message and what the
\* message embeds)
NoResult ==
    [ tool |-> "none", args |-> << >>, decoded |-> TRUE, called |-> << >>,
      passed |-> << >>, existing |-> Nil, learnings |-> << >>, dropped |-> {},
      stats |-> << >>, total |-> 0, aborted |-> FALSE,
      requests |-> << >>, isError |-> FALSE, text |-> "", cause |-> "" ]


\* now.Format(time.RFC3339): the time in whole seconds
FormatRFC3339(t) == t \div TicksPerSec

\* time.Parse(time.RFC3339, v): the instant a whole second begins
ParseRFC3339(s) == s * TicksPerSec

\* strconv.FormatInt(id, 10) / fmt.Sprintf("%d", now.UnixNano())
FormatInt(n) == ToString(n)

Without(f, id) == [ i \in DOMAIN f \ {id} |-> f[i] ]

\* metaToLearning: a document and its metadata as a Learning
metaToLearning(id, doc, meta) ==
    Learning(id, meta.category, doc, meta.tags, meta.confidence, meta.use_count,
             ParseRFC3339(meta.created_at), ParseRFC3339(meta.updated_at))

\* getByID: the record of the collection under id, or an error (nil)
getByID(id, ok) ==
    IF ok /\ id \in DOMAIN store
    THEN << metaToLearning(id, store[id].content, store[id]) >>
    ELSE Nil

\* the Learning the backend in use reads back for id from the rows st
StoredIn(st, id) ==
    IF backend = "sqlite"
    THEN Learning(id, st[id].category, st[id].content, st[id].tags,
                  st[id].confidence, st[id].use_count, st[id].created_at,
                  st[id].updated_at)
    ELSE metaToLearning(id, st[id].content, st[id])

Stored(id) == StoredIn(store, id)

\* the time t as the backend in use stores it and reads it back
Stamp(t) ==
    IF backend = "sqlite" THEN t ELSE ParseRFC3339(FormatRFC3339(t))

InFlight(step) == Cardinality({ q \in Procs : pc[q] = step })

\* the call of p returns, with an error or without
Return(p, e) ==
    /\ pc' = [pc EXCEPT ![p] = "idle"]
    /\ call' = [call EXCEPT ![p] = NoCall]
    /\ err' = e

---------------------------------------------------------------------------
(* The clock *)

Tick ==
    /\ now < MaxClock
    /\ now' = now + 1
    /\ UNCHANGED <<backend, store, seq, pc, call, err, issued, gone, incs, race, result, rpc, fts, remote>>

---------------------------------------------------------------------------
(* Structured-store backend *)

\* Add, line 78: now := time.Now()
SQLiteAddBegin(p, a, maxAdds) ==
    /\ backend = "sqlite"
    /\ pc[p] = "idle"
    /\ seq + InFlight("sqlite_add") < maxAdds
    /\ pc' = [pc EXCEPT ![p] = "sqlite_add"]
    /\ call' = [call EXCEPT ![p] =
                 [NoCall EXCEPT !.op = "add", !.category = a.category,
                                !.content = a.content, !.tags = a.tags,
                                !.confidence = a.confidence, !.now = now]]
    /\ UNCHANGED <<backend, now, store, seq, err, issued, gone, incs, race, result, rpc, fts, remote>>

\* the row INSERT stores: use_count takes the column default 0
SQLiteInsertRow(c) ==
    Row(c.category, c.content, c.tags, c.confidence, 0, c.now, c.now)

\* Add, lines 79-91: the INSERT and the returned Learning
SQLiteAddExec(p, ok) ==
    /\ backend = "sqlite"
    /\ pc[p] = "sqlite_add"
    /\ LET c == call[p]
           id == FormatInt(seq + 1)
       IN IF ok
          THEN /\ seq' = seq + 1
               /\ store' = (id :> SQLiteInsertRow(c)) @@ store
               /\ incs' = (id :> 0) @@ incs
               /\ issued' = issued \cup {id}
               /\ Return(p, FALSE)
          ELSE /\ UNCHANGED <<seq, store, incs, issued>>
               /\ Return(p, TRUE)
    /\ UNCHANGED <<backend, now, gone, race, result, rpc, fts, remote>>

\* Add, lines 87-91: the Learning returned for the rowid LastInsertId gives
SQLiteAddResult(c, rowid) ==
    Learning(FormatInt(rowid), c.category, c.content, c.tags, c.confidence,
             0, c.now, c.now)

\* Update, line 166: time.Now() is evaluated before the statement runs
SQLiteUpdateBegin(p, id, a) ==
    /\ backend = "sqlite"
    /\ pc[p] = "idle"
    /\ pc' = [pc EXCEPT ![p] = "sqlite_update"]
    /\ call' = [call EXCEPT ![p] =
                 [NoCall EXCEPT !.op = "update", !.id = id, !.content = a.content,
                                !.tags = a.tags, !.confidence = a.confidence,
                                !.now = now]]
    /\ UNCHANGED <<backend, now, store, seq, err, issued, gone, incs, race, result, rpc, fts, remote>>

\* a faulty Update that rewrites the whole row (INSERT OR REPLACE), so that
\* use_count falls back to the column default
SQLiteUpdateRowReplace(r, c) ==
    [r EXCEPT !.content = c.content, !.tags = c.tags,
              !.confidence = c.confidence, !.updated_at = c.now,
              !.use_count = 0]

\* UPDATE learnings SET content=?, tags=?, confidence=?, updated_at=?
SQLiteUpdateRow(r, c) ==
    [r EXCEPT !.content = c.content, !.tags = c.tags,
              !.confidence = c.confidence, !.updated_at = c.now]

\* Update, lines 164-168: the UPDATE ... WHERE id=?
SQLiteUpdateExec(p, ok) ==
    /\ backend = "sqlite"
    /\ pc[p] = "sqlite_update"
    /\ LET c == call[p] IN
          /\ store' = IF ok /\ c.id \in DOMAIN store
                      THEN [store EXCEPT ![c.id] = SQLiteUpdateRow(@, c)]
                      ELSE store
          /\ Return(p, ~ok)
    /\ UNCHANGED <<backend, now, seq, issued, gone, incs, race, result, rpc, fts, remote>>

\* Delete, lines 171-174: DELETE FROM learnings WHERE id=?
SQLiteDelete(p, id, ok) ==
    /\ backend = "sqlite"
    /\ pc[p] = "idle"
    /\ store' = IF ok THEN Without(store, id) ELSE store
    /\ incs' = IF ok THEN Without(incs, id) ELSE incs
    /\ gone' = IF ok THEN gone \cup ({id} \cap DOMAIN store) ELSE gone
    /\ Return(p, ~ok)
    /\ UNCHANGED <<backend, now, seq, issued, race, result, rpc, fts, remote>>

\* a faulty increment that also sets updated_at to the time of the call
SQLiteIncrementRowTouch(r) ==
    [r EXCEPT !.use_count = @ + 1, !.updated_at = now]

\* UPDATE learnings SET use_count = use_count + 1
SQLiteIncrementRow(r) == [r EXCEPT !.use_count = @ + 1]

\* IncrementUseCount, lines 176-178: one statement, its error dropped
SQLiteIncrementUseCount(p, id, ok) ==
    /\ backend = "sqlite"
    /\ pc[p] = "idle"
    /\ id \in DOMAIN store => store[id].use_count < MaxUse
    /\ store' = IF ok /\ id \in DOMAIN store
                THEN [store EXCEPT ![id] = SQLiteIncrementRow(@)]
                ELSE store
    /\ incs' = IF ok /\ id \in DOMAIN store
               THEN [incs EXCEPT ![id] = @ + 1]
               ELSE incs
    /\ Return(p, ~ok)
    /\ UNCHANGED <<backend, now, seq, issued, gone, race, result, rpc, fts, remote>>

---------------------------------------------------------------------------
(* Remote document-store backend *)

\* Add, lines 148-149: now := time.Now(); id := fmt.Sprintf("%d", now.UnixNano())
ChromaAddBegin(p, a, maxAdds) ==
    /\ backend = "chroma"
    /\ pc[p] = "idle"
    /\ Cardinality(issued) + InFlight("chroma_add") < maxAdds
    /\ pc' = [pc EXCEPT ![p] = "chroma_add"]
    /\ call' = [call EXCEPT ![p] =
                 [NoCall EXCEPT !.op = "add", !.id = FormatInt(now),
                                !.category = a.category, !.content = a.content,
                                !.tags = a.tags, !.confidence = a.confidence,
                                !.now = now]]
    /\ UNCHANGED <<backend, now, store, seq, err, issued, gone, incs, race, result, rpc, fts, remote>>

\* Add, lines 151-162: the document and metadata of the add request
ChromaAddMeta(c) ==
    Row(c.category, c.content, c.tags, c.confidence, 0,
        FormatRFC3339(c.now), FormatRFC3339(c.now))

\* Add, lines 173-182: POST /add, then the returned Learning
ChromaAddPost(p, ok) ==
    /\ backend = "chroma"
    /\ pc[p] = "chroma_add"
    /\ LET c == call[p] IN
          IF ok
          THEN /\ store' = IF c.id \in DOMAIN store THEN store
                           ELSE (c.id :> ChromaAddMeta(c)) @@ store
               /\ issued' = issued \cup {c.id}
               /\ Return(p, FALSE)
          ELSE /\ UNCHANGED <<store, issued>>
               /\ Return(p, TRUE)
    /\ UNCHANGED <<backend, now, seq, gone, incs, race, result, rpc, fts, remote>>

\* Add, lines 178-182: the Learning returned
ChromaAddResult(c) ==
    Learning(c.id, c.category, c.content, c.tags, c.confidence, 0, c.now, c.now)

\* Update, line 258: now := time.Now()
ChromaUpdateBegin(p, id, a) ==
    /\ backend = "chroma"
    /\ pc[p] = "idle"
    /\ pc' = [pc EXCEPT ![p] = "chroma_update_get"]
    /\ call' = [call EXCEPT ![p] =
                 [NoCall EXCEPT !.op = "update", !.id = id, !.content = a.content,
                                !.tags = a.tags, !.confidence = a.confidence,
                                !.now = now]]
    /\ UNCHANGED <<backend, now, store, seq, err, issued, gone, incs, race, result, rpc, fts, remote>>

\* Update, line 260: existing, _ := b.getByID(id)
ChromaUpdateGet(p, ok) ==
    /\ backend = "chroma"
    /\ pc[p] = "chroma_update_get"
    /\ pc' = [pc EXCEPT ![p] = "chroma_update_post"]
    /\ call' = [call EXCEPT ![p].existing = getByID(call[p].id, ok)]
    /\ UNCHANGED <<backend, now, store, seq, err, issued, gone, incs, race, result, rpc, fts, remote>>

\* a faulty merge that never uses the fetched record
ChromaUpdateMetaDefaults(c) ==
    Row("general", c.content, c.tags, c.confidence, 0,
        FormatRFC3339(c.now), FormatRFC3339(c.now))

\* Update, lines 261-281: the metadata merged from the fetched record
ChromaUpdateMeta(c) ==
    IF c.existing # Nil
    THEN Row(c.existing[1].category, c.content, c.tags, c.confidence,
             c.existing[1].use_count, FormatRFC3339(c.existing[1].created_at),
             FormatRFC3339(c.now))
    ELSE Row("general", c.content, c.tags, c.confidence, 0,
             FormatRFC3339(c.now), FormatRFC3339(c.now))

\* Update, lines 283-285: POST /update
ChromaUpdatePost(p, ok) ==
    /\ backend = "chroma"
    /\ pc[p] = "chroma_update_post"
    /\ LET c == call[p] IN
          /\ store' = IF ok /\ c.id \in DOMAIN store
                      THEN [store EXCEPT ![c.id] = ChromaUpdateMeta(c)]
                      ELSE store
          /\ Return(p, ~ok)
    /\ UNCHANGED <<backend, now, seq, issued, gone, incs, race, result, rpc, fts, remote>>

\* Delete, lines 288-293: POST /delete
ChromaDelete(p, id, ok) ==
    /\ backend = "chroma"
    /\ pc[p] = "idle"
    /\ store' = IF ok THEN Without(store, id) ELSE store
    /\ gone' = IF ok THEN gone \cup ({id} \cap DOMAIN store) ELSE gone
    /\ Return(p, ~ok)
    /\ UNCHANGED <<backend, now, seq, issued, incs, race, result, rpc, fts, remote>>

\* IncrementUseCount, lines 296-299: the fetch, and the return when it fails
ChromaIncrementGet(p, id, ok) ==
    /\ backend = "chroma"
    /\ pc[p] = "idle"
    /\ LET existing == getByID(id, ok) IN
          IF existing = Nil
          THEN /\ Return(p, TRUE)
          ELSE /\ existing[1].use_count < MaxUse
               /\ pc' = [pc EXCEPT ![p] = "chroma_inc_post"]
               /\ call' = [call EXCEPT ![p] =
                            [NoCall EXCEPT !.op = "inc", !.id = id,
                                           !.existing = existing]]
               /\ err' = err
    /\ UNCHANGED <<backend, now, store, seq, issued, gone, incs, race, result, rpc, fts, remote>>

\* a faulty rewrite that writes the fetched use_count back as it is
ChromaIncrementMetaSame(e) ==
    Row(e.category, e.content, e.tags, e.confidence, e.use_count,
        FormatRFC3339(e.created_at), FormatRFC3339(e.updated_at))

\* IncrementUseCount, lines 300-311: the fetched record with use_count + 1
ChromaIncrementMeta(e) ==
    Row(e.category, e.content, e.tags, e.confidence, e.use_count + 1,
        FormatRFC3339(e.created_at), FormatRFC3339(e.updated_at))

\* IncrementUseCount, lines 312-313: POST /update, its error dropped
ChromaIncrementPost(p, ok) ==
    /\ backend = "chroma"
    /\ pc[p] = "chroma_inc_post"
    /\ LET c == call[p] IN
          /\ store' = IF ok /\ c.id \in DOMAIN store
                      THEN [store EXCEPT ![c.id] = ChromaIncrementMeta(c.existing[1])]
                      ELSE store
          /\ Return(p, ~ok)
    /\ UNCHANGED <<backend, now, seq, issued, gone, incs, race, result, rpc, fts, remote>>

---------------------------------------------------------------------------
(* Text: the strings of the model and their characters *)

Chars ==
    [ s \in {"", "c", "c1", "c2", "c3", "c4", "t1", "t2", "c2 t2",
             "technical", "general", "bogus", "C1", "T2", "c_", "x1", " ",
             "0", "1", "2", "3", "4", "01"} |->
        CASE s = "" -> << >>
          [] s = "C1" -> <<"C", "1">>
          [] s = "T2" -> <<"T", "2">>
          [] s = "c_" -> <<"c", "_">>
          [] s = "x1" -> <<"x", "1">>
          [] s = " " -> <<" ">>
          [] s = "0" -> <<"0">>
          [] s = "1" -> <<"1">>
          [] s = "2" -> <<"2">>
          [] s = "3" -> <<"3">>
          [] s = "4" -> <<"4">>
          [] s = "01" -> <<"0", "1">>
          [] s = "c" -> <<"c">>
          [] s = "c1" -> <<"c", "1">>
          [] s = "c2" -> <<"c", "2">>
          [] s = "c3" -> <<"c", "3">>
          [] s = "c4" -> <<"c", "4">>
          [] s = "t1" -> <<"t", "1">>
          [] s = "t2" -> <<"t", "2">>
          [] s = "c2 t2" -> <<"c", "2", " ", "t", "2">>
          [] s = "technical" -> <<"t", "e", "c", "h", "n", "i", "c", "a", "l">>
          [] s = "general" -> <<"g", "e", "n", "e", "r", "a", "l">>
          [] s = "bogus" -> <<"b", "o", "g", "u", "s">> ]

\* strings.Fields on characters: the maximal runs without white space
RECURSIVE FieldsOf(_, _)
FieldsOf(cs, word) ==
    IF cs = << >>
    THEN IF word = << >> THEN << >> ELSE << word >>
    ELSE IF Head(cs) = " "
         THEN (IF word = << >> THEN << >> ELSE << word >>) \o FieldsOf(Tail(cs), << >>)
         ELSE FieldsOf(Tail(cs), Append(word, Head(cs)))

Fields(s) == FieldsOf(Chars[s], << >>)

\* w is a substring of text
Contains(text, w) ==
    \E i \in 1..(Len(Chars[text]) - Len(w) + 1) :
        SubSeq(Chars[text], i, i + Len(w) - 1) = w

\* LIKE compares ASCII letters without regard to case
Fold(ch) == IF ch = "C" THEN "c" ELSE IF ch = "T" THEN "t" ELSE ch

\* text LIKE pattern, without ESCAPE: % stands for any run of characters and
\* _ for any one character
RECURSIVE LikeChars(_, _)
LikeChars(pattern, text) ==
    IF pattern = << >> THEN text = << >>
    ELSE IF Head(pattern) = "%"
    THEN \/ LikeChars(Tail(pattern), text)
         \/ text # << >> /\ LikeChars(pattern, Tail(text))
    ELSE /\ text # << >>
         /\ Head(pattern) = "_" \/ Fold(Head(pattern)) = Fold(Head(text))
         /\ LikeChars(Tail(pattern), Tail(text))

\* a faulty LIKE pattern without the leading %: the word must begin the text
LikePrefix(text, w) == LikeChars(w \o <<"%">>, Chars[text])

\* like := "%" + w + "%"; text LIKE like
Like(text, w) == LikeChars(<<"%">> \o w \o <<"%">>, Chars[text])

\* the value of a decimal digit
DigitValue ==
    [ ch \in {"0", "1", "2", "3", "4", "5", "6", "7", "8", "9"} |->
        CASE ch = "0" -> 0 [] ch = "1" -> 1 [] ch = "2" -> 2 [] ch = "3" -> 3
          [] ch = "4" -> 4 [] ch = "5" -> 5 [] ch = "6" -> 6 [] ch = "7" -> 7
          [] ch = "8" -> 8 [] ch = "9" -> 9 ]

\* the integer a run of digits reads as
RECURSIVE IntegerOf(_, _)
IntegerOf(cs, n) ==
    IF cs = << >> THEN n ELSE IntegerOf(Tail(cs), 10 * n + DigitValue[Head(cs)])

\* WHERE id = ? with a text parameter: the column is INTEGER PRIMARY KEY, so
\* the engine reads a text that is an integer literal as that integer before
\* it compares (of the literals it accepts, the runs of digits are modelled);
\* any other text equals no id.  The id of the row the statement acts on.
SQLiteRow(id) ==
    LET cs == Chars[id]
    IN IF cs # << >> /\ \A i \in DOMAIN cs : cs[i] \in DOMAIN DigitValue
       THEN FormatInt(IntegerOf(cs, 0))
       ELSE id

\* the record a call on id acts on: the remote store compares ids as strings
RowOf(id) == IF backend = "sqlite" THEN SQLiteRow(id) ELSE id

\* the tokenizer of the full-text index: the maximal runs of letters and
\* digits, letters folded to lower case
RECURSIVE TokensOf(_, _)
TokensOf(cs, token) ==
    IF cs = << >>
    THEN IF token = << >> THEN << >> ELSE << token >>
    ELSE IF Head(cs) \in {" ", "_"}
         THEN (IF token = << >> THEN << >> ELSE << token >>) \o TokensOf(Tail(cs), << >>)
         ELSE TokensOf(Tail(cs), Append(token, Fold(Head(cs))))

\* the tokens the full-text index holds for a column value
Tokens(text) == TokensOf(Chars[text], << >>)

\* a word of the match expression matches a column that holds its tokens as
\* a phrase
PhraseIn(tokens, word) ==
    LET phrase == TokensOf(word, << >>)
    IN /\ phrase # << >>
       /\ \E i \in 1..(Len(tokens) - Len(phrase) + 1) :
             SubSeq(tokens, i, i + Len(phrase) - 1) = phrase

Perms(S) ==
    { f \in [1..Cardinality(S) -> S] : \A i, j \in DOMAIN f : f[i] = f[j] => i = j }

\* LIMIT n / the first n results
Take(ls, n) == SubSeq(ls, 1, IF n < Len(ls) THEN n ELSE Len(ls))

Learnings(ids) == [ i \in DOMAIN ids |-> Stored(ids[i]) ]

---------------------------------------------------------------------------
(* Structured-store backend: the reads *)

DefaultSearchLimit == 10
DefaultListLimit == 50

\* ... AND l.category = ? (appended when category # "")
CategoryIs(id, category) == category = "" \/ store[id].category = category

\* the entry the triggers write to learnings_fts for a row
IndexEntry(r) == [content |-> r.content, tags |-> r.tags, category |-> r.category]

\* the index when every trigger has run for every statement
SyncedIndex == [ id \in DOMAIN store |-> IndexEntry(store[id]) ]

\* learnings_fts MATCH 'w1 OR w2 ...' over the columns content, tags, category
\* of the index ix
FTSMatch(ix, id, words) ==
    \E i \in DOMAIN words :
        \/ PhraseIn(Tokens(ix[id].content), words[i])
        \/ PhraseIn(Tokens(ix[id].tags), words[i])
        \/ PhraseIn(Tokens(ix[id].category), words[i])

\* (content LIKE ? OR tags LIKE ?) OR ..., or 1=1 when the query has no words
LikeMatch(id, words) ==
    \/ words = << >>
    \/ \E i \in DOMAIN words :
          Like(store[id].content, words[i]) \/ Like(store[id].tags, words[i])

\* a faulty fallback that leaves the parentheses out, so that AND category
\* binds to the last clause only
FallbackWhereUnparenthesised(id, words, category) ==
    IF words = << >> THEN CategoryIs(id, category)
    ELSE \E i \in DOMAIN words :
            /\ Like(store[id].content, words[i]) \/ Like(store[id].tags, words[i])
            /\ i = Len(words) => CategoryIs(id, category)

\* Search, lines 124-129: WHERE (clause OR ...) AND category = ?
FallbackWhere(id, words, category) ==
    LikeMatch(id, words) /\ CategoryIs(id, category)

\* ORDER BY confidence DESC, use_count DESC
ByConfidenceThenUse(a, b) ==
    \/ store[a].confidence > store[b].confidence
    \/ store[a].confidence = store[b].confidence
         /\ store[a].use_count > store[b].use_count

\* ORDER BY updated_at DESC
ByUpdatedDesc(a, b) == store[a].updated_at > store[b].updated_at

\* the rows S in the orders ORDER BY confidence DESC, use_count DESC admits
OrderByConfidence(S) ==
    { SortSeq(scan, ByConfidenceThenUse) : scan \in Perms(S) }

\* the rows S in the orders ORDER BY updated_at DESC admits
OrderByUpdated(S) == { SortSeq(scan, ByUpdatedDesc) : scan \in Perms(S) }

\* Search, lines 94-141, on the index ix: the result sets it may return.
\* The driver prepares and binds a statement in db.Query and runs it in
\* rows.Next, and scanLearnings (lines 200-214) never reads rows.Err(): an
\* error of the run ends the rows read with no error.  matched: the MATCH
\* query was prepared, so that db.Query returned no error and the fallback
\* is not tried.  A match expression without a word is a syntax error when
\* the statement runs.  The rank order of the matches is not modelled (any
\* order).
SQLiteSearchIn(ix, query, category, limit, matched) ==
    LET lim == IF limit <= 0 THEN DefaultSearchLimit ELSE limit
        words == Fields(query)
    IN IF matched
       THEN IF words = << >> THEN { << >> }
            ELSE { Learnings(Take(rows, lim)) :
                     rows \in Perms({ id \in DOMAIN store \cap DOMAIN ix :
                                        FTSMatch(ix, id, words) /\ CategoryIs(id, category) }) }
       ELSE { Learnings(Take(rows, lim)) :
                rows \in OrderByConfidence({ id \in DOMAIN store :
                                               FallbackWhere(id, words, category) }) }

\* Search with the index in step with the table
SQLiteSearch(query, category, limit, matched) ==
    SQLiteSearchIn(SyncedIndex, query, category, limit, matched)

\* List, lines 143-161
SQLiteList(category, limit) ==
    LET lim == IF limit <= 0 THEN DefaultListLimit ELSE limit
    IN { Learnings(Take(rows, lim)) :
           rows \in OrderByUpdated({ id \in DOMAIN store : CategoryIs(id, category) }) }

\* a faulty count that records a category instead of counting it
RECURSIVE CountByCategoryOnce(_, _)
CountByCategoryOnce(cats, stats) ==
    IF cats = << >> THEN stats
    ELSE CountByCategoryOnce(Tail(cats), (Head(cats) :> 1) @@ stats)

\* stats[cat] = count for each group / stats[cat]++ for each metadata
RECURSIVE CountByCategory(_, _)
CountByCategory(cats, stats) ==
    IF cats = << >> THEN stats
    ELSE LET cat == Head(cats) IN
         CountByCategory(Tail(cats),
                         IF cat \in DOMAIN stats
                         THEN [stats EXCEPT ![cat] = @ + 1]
                         ELSE (cat :> 1) @@ stats)

\* the categories of the stored records, one entry per record
StoredCategories ==
    LET ids == CHOOSE scan \in Perms(DOMAIN store) : TRUE
    IN [ i \in DOMAIN ids |-> store[ids[i]].category ]

\* Stats, lines 180-194: SELECT category, COUNT(*) ... GROUP BY category
SQLiteStats == CountByCategory(StoredCategories, << >>)

---------------------------------------------------------------------------
(* Remote document-store backend: the reads *)

\* where: {"category": {"$eq": category}}, set when category # ""
WhereCategory(category) ==
    { id \in DOMAIN store : category = "" \/ store[id].category = category }

\* a faulty sort, by UpdatedAt.Before
sortByUpdatedAscending(ls) == SortSeq(ls, LAMBDA a, b : a.updated_at < b.updated_at)

\* sortByUpdated, lines 462-466: sort.Slice by UpdatedAt.After
sortByUpdated(ls) == SortSeq(ls, LAMBDA a, b : a.updated_at > b.updated_at)

\* Search, lines 185-226: the n_results records the store ranks nearest,
\* among those the where filter admits (the ranking is the store's)
ChromaSearch(query, category, limit) ==
    LET lim == IF limit <= 0 THEN DefaultSearchLimit ELSE limit
    IN { Learnings(Take(rows, lim)) : rows \in Perms(WhereCategory(category)) }

\* List, lines 228-255: the first limit records of the get, sorted here
ChromaList(category, limit) ==
    LET lim == IF limit <= 0 THEN DefaultListLimit ELSE limit
    IN { sortByUpdated(Learnings(Take(rows, lim))) :
           rows \in Perms(WhereCategory(category)) }

\* Stats, lines 316-336: one count per metadata of the get
ChromaStats == CountByCategory(StoredCategories, << >>)

---------------------------------------------------------------------------
(* Specifications *)

\* NewBackend: the backend the configuration selects, with an empty store
Init ==
    /\ backend \in {"sqlite", "chroma"}
    /\ now = 0
    /\ store = << >>
    /\ seq = 0
    /\ pc = [p \in Procs |-> "idle"]
    /\ call = [p \in Procs |-> NoCall]
    /\ err = FALSE
    /\ issued = {}
    /\ gone = {}
    /\ incs = << >>
    /\ race = NoRace
    /\ result = NoResult
    /\ rpc = NoRPC
    /\ fts = NoFTS
    /\ remote = NoRemote

\* the steps one caller of the structured store can take
SQLiteStep(p, maxAdds) ==
    \/ \E a \in AddArgs : SQLiteAddBegin(p, a, maxAdds)
    \/ \E ok \in BOOLEAN : SQLiteAddExec(p, ok)
    \/ \E id \in IdPool(maxAdds), a \in UpdArgs : SQLiteUpdateBegin(p, id, a)
    \/ \E ok \in BOOLEAN : SQLiteUpdateExec(p, ok)
    \/ \E id \in IdPool(maxAdds), ok \in BOOLEAN : SQLiteDelete(p, id, ok)
    \/ \E id \in IdPool(maxAdds), ok \in BOOLEAN : SQLiteIncrementUseCount(p, id, ok)

\* the steps one caller of the remote backend can take
ChromaStep(p, maxAdds) ==
    \/ \E a \in AddArgs : ChromaAddBegin(p, a, maxAdds)
    \/ \E ok \in BOOLEAN : ChromaAddPost(p, ok)
    \/ \E id \in IdPool(maxAdds), a \in UpdArgs : ChromaUpdateBegin(p, id, a)
    \/ \E ok \in BOOLEAN : ChromaUpdateGet(p, ok)
    \/ \E ok \in BOOLEAN : ChromaUpdatePost(p, ok)
    \/ \E id \in IdPool(maxAdds), ok \in BOOLEAN : ChromaDelete(p, id, ok)
    \/ \E id \in IdPool(maxAdds), ok \in BOOLEAN : ChromaIncrementGet(p, id, ok)
    \/ \E ok \in BOOLEAN : ChromaIncrementPost(p, ok)

\* concurrent callers on one backend instance
Next ==
    \/ Tick
    \/ \E p \in Procs : SQLiteStep(p, MaxConcAdds)
    \/ \E p \in Procs : ChromaStep(p, MaxConcAdds)

Spec == Init /\ [][Next]_vars

\* one caller: no call runs concurrently with another
NextSeq ==
    \/ Tick
    \/ SQLiteStep(1, MaxAdds)
    \/ ChromaStep(1, MaxAdds)

SpecSeq == Init /\ [][NextSeq]_vars

\* concurrent callers on the structured store
InitSQLite == Init /\ backend = "sqlite"

NextSQLite ==
    \/ Tick
    \/ \E p \in Procs : SQLiteStep(p, MaxConcAdds)

SpecSQLite == InitSQLite /\ [][NextSQLite]_vars

---------------------------------------------------------------------------
(* The tools: one client, each tools/call dispatched and handled to its end *)

\* tools.go, lines 48-55
validCategories ==
    {"preferences", "personal_context", "technical", "personal_growth",
     "mistakes", "general"}

DefaultConfidence == 8   \* 0.8, in tenths as every confidence of the model

\* arguments of store_learning as the client sends them: an omitted field
\* decodes to its zero value ("" or 0)
StoreArgs ==
    { [category |-> "technical", content |-> "c1", tags |-> "t1", confidence |-> 9],
      [category |-> "", content |-> "c2", tags |-> "", confidence |-> 0],
      [category |-> "bogus", content |-> "c3", tags |-> "t2", confidence |-> 7],
      [category |-> "technical", content |-> "", tags |-> "", confidence |-> 7] }

\* arguments of update_learning, the id apart
UpdateArgs ==
    { [content |-> "c3", tags |-> "t2", confidence |-> 0],
      [content |-> "", tags |-> "", confidence |-> 9] }

Queries == {"", "c", "c2 t2"}
Filters == {"", "technical"}
Limits == {0, 1}
ToolNames ==
    {"lookup_context", "store_learning", "list_learnings", "update_learning",
     "delete_learning", "get_stats"}

\* what json.Unmarshal leaves in a field when it returns an error: the value
\* sent, or the zero value
Decoded(decodes, sent, zero) == IF decodes THEN {sent} ELSE {sent, zero}

\* the error a backend operation returns: the engine's or the request's
BackendError == IF backend = "sqlite" THEN "engine error" ELSE "request failed"

\* textResult, lines 40-42
textResult(r, text, cause) ==
    [r EXCEPT !.isError = FALSE, !.text = text, !.cause = cause]

\* errorResult, lines 44-46
errorResult(r, text, cause) ==
    [r EXCEPT !.isError = TRUE, !.text = text, !.cause = cause]

\* a tools/call of the tool name is dispatched
Dispatched(name) == [NoResult EXCEPT !.tool = name]

\* post, lines 391-402: one request to the collection store and whether it
\* succeeded (no error, status < 400)
Post(path, ok) == [path |-> path, ok |-> ok]

\* the requests an operation of the remote backend sent
Sent(r, posts) == [r EXCEPT !.requests = IF backend = "chroma" THEN posts ELSE << >>]

\* the tool call ends: the client has its result (or, aborted, none)
Respond(r, e) ==
    /\ result' = r
    /\ err' = e
    /\ UNCHANGED <<backend, now, pc, call, race, fts, remote>>

\* a faulty default that also clamps a confidence above the default
ConfidenceClamped(k) ==
    IF k = 0 \/ k > DefaultConfidence THEN DefaultConfidence ELSE k

\* handleStore, lines 257-259, and handleUpdate, lines 312-314:
\* if p.Confidence == 0 { p.Confidence = 0.8 }
Confidence(k) == IF k = 0 THEN DefaultConfidence ELSE k

\* the call record of an Add or Update made now
BackendCall(op, id, category, a) ==
    [NoCall EXCEPT !.op = op, !.id = id, !.category = category,
                   !.content = a.content, !.tags = a.tags,
                   !.confidence = a.confidence, !.now = now]

\* handleStore, lines 247-269
handleStore(a, decodes, ok, maxAdds) ==
    LET r == Dispatched("store_learning")
        p == [a EXCEPT !.confidence = Confidence(@),
                       !.category = IF @ = "" THEN "general" ELSE @]
        id == IF backend = "sqlite" THEN FormatInt(seq + 1) ELSE FormatInt(now)
        c == BackendCall("add", id, p.category, p)
        added == IF backend = "sqlite" THEN SQLiteAddResult(c, seq + 1)
                 ELSE ChromaAddResult(c)
    IN /\ (IF backend = "sqlite" THEN seq ELSE Cardinality(issued)) < maxAdds
       /\ IF ~decodes
          THEN /\ Respond(errorResult([r EXCEPT !.decoded = FALSE],
                                   "invalid arguments", "json"), FALSE)
               /\ UNCHANGED <<store, seq, issued, gone, incs>>
          ELSE IF ~ok
          THEN /\ Respond(errorResult(Sent([r EXCEPT !.called = <<"Add">>],
                                           << Post("/add", FALSE) >>),
                                      "failed to store", BackendError), TRUE)
               /\ UNCHANGED <<store, seq, issued, gone, incs>>
          ELSE /\ store' = IF backend = "sqlite"
                           THEN (id :> SQLiteInsertRow(c)) @@ store
                           ELSE IF id \in DOMAIN store THEN store
                                ELSE (id :> ChromaAddMeta(c)) @@ store
               /\ seq' = IF backend = "sqlite" THEN seq + 1 ELSE seq
               /\ incs' = IF backend = "sqlite" THEN (id :> 0) @@ incs ELSE incs
               /\ issued' = issued \cup {id}
               /\ Respond(textResult([Sent(r, << Post("/add", TRUE) >>) EXCEPT
                                               !.args = a, !.called = <<"Add">>,
                                               !.passed = p, !.learnings = << added >>],
                                     "Learning stored successfully", added.id), FALSE)
               /\ UNCHANGED gone

\* a faulty increment that writes also when its statement or its fetch failed
IncrementAllWritten(ids, failed) ==
    [ id \in DOMAIN store |->
        IF id \in ids
        THEN IF backend = "sqlite" THEN SQLiteIncrementRow(store[id])
             ELSE ChromaIncrementMeta(getByID(id, TRUE)[1])
        ELSE store[id] ]

\* IncrementUseCount of every id of ids but those of failed, whose statement
\* or requests fail
IncrementAll(ids, failed) ==
    [ id \in DOMAIN store |->
        IF id \in ids \ failed
        THEN IF backend = "sqlite" THEN SQLiteIncrementRow(store[id])
             ELSE ChromaIncrementMeta(getByID(id, TRUE)[1])
        ELSE store[id] ]

\* handleLookup, lines 212-245.  found: what Search returned; searched: the
\* Search returned no error; intact: the query response held a document and
\* a metadata array (without them chromaResultsToLearnings indexes out of
\* range and the handler panics); failed: the ids whose increment fails
handleLookup(query, category, limit, decodes, searched, intact, found, failed) ==
    LET r == Dispatched("lookup_context")
        ids == { found[i].id : i \in DOMAIN found }
    IN IF ~decodes
       THEN /\ Respond(errorResult([r EXCEPT !.decoded = FALSE],
                                   "invalid arguments", "json"), FALSE)
            /\ UNCHANGED <<store, seq, issued, gone, incs>>
       ELSE IF ~searched
       THEN /\ Respond(errorResult(Sent([r EXCEPT !.called = <<"Search">>],
                                        << Post("/query", FALSE) >>),
                                   "search failed", BackendError), TRUE)
            /\ UNCHANGED <<store, seq, issued, gone, incs>>
       ELSE IF backend = "chroma" /\ ~intact /\ found # << >>
       THEN /\ Respond([Sent(r, << Post("/query", TRUE) >>) EXCEPT
                           !.called = <<"Search">>, !.aborted = TRUE], FALSE)
            /\ UNCHANGED <<store, seq, issued, gone, incs>>
       ELSE /\ \A id \in ids : store[id].use_count < MaxUse
            /\ store' = IncrementAll(ids, failed)
            /\ incs' = IF backend = "sqlite"
                       THEN [ id \in DOMAIN incs |->
                                IF id \in ids \ failed THEN incs[id] + 1 ELSE incs[id] ]
                       ELSE incs
            /\ Respond(textResult([Sent(r, << Post("/query", TRUE) >>) EXCEPT
                                            !.args = [category |-> category],
                                            !.called = <<"Search">> \o
                                               [ i \in DOMAIN found |-> "IncrementUseCount" ],
                                            !.learnings = found, !.dropped = failed],
                                  IF found = << >> THEN "No relevant learnings found"
                                  ELSE "Found relevant learnings", ""),
                       FALSE)
            /\ UNCHANGED <<seq, issued, gone>>

\* Search of the backend in use: the results it may return
Search(query, category, limit) ==
    IF backend = "sqlite"
    THEN SQLiteSearch(query, category, limit, TRUE)
           \cup SQLiteSearch(query, category, limit, FALSE)
    ELSE ChromaSearch(query, category, limit)

\* List of the backend in use: the results it may return
List(category, limit) ==
    IF backend = "sqlite" THEN SQLiteList(category, limit)
    ELSE ChromaList(category, limit)

\* Stats of the backend in use
Stats == IF backend = "sqlite" THEN SQLiteStats ELSE ChromaStats

\* handleList, lines 271-300: the error of json.Unmarshal is not looked at
handleList(category, limit, decodes, listed, found) ==
    LET r == [Dispatched("list_learnings") EXCEPT
                 !.args = [category |-> category, limit |-> limit],
                 !.decoded = decodes]
    IN /\ IF ~listed
          THEN Respond(errorResult(Sent([r EXCEPT !.called = <<"List">>],
                                        << Post("/get", FALSE) >>),
                                   "list failed", BackendError), TRUE)
          ELSE Respond(textResult([Sent(r, << Post("/get", TRUE) >>) EXCEPT
                                      !.called = <<"List">>, !.learnings = found],
                                  IF found = << >> THEN "No learnings stored yet"
                                  ELSE "Stored learnings", ""), FALSE)
       /\ UNCHANGED <<store, seq, issued, gone, incs>>

\* handleUpdate, lines 302-319.  fetched, ok: the remote getByID and the
\* write succeed
handleUpdate(id, a, decodes, fetched, ok) ==
    LET r == Dispatched("update_learning")
        p == [a EXCEPT !.confidence = Confidence(@)]
        c == [BackendCall("update", id, "", p) EXCEPT !.existing = getByID(id, fetched)]
        called == [Sent(r, << Post("/get", fetched), Post("/update", ok) >>) EXCEPT
                      !.called = <<"Update">>,
                      !.existing = IF backend = "chroma" THEN c.existing ELSE Nil]
    IN /\ IF ~decodes
          THEN /\ Respond(errorResult([r EXCEPT !.decoded = FALSE],
                                   "invalid arguments", "json"), FALSE)
               /\ store' = store
          ELSE IF ~ok
          THEN /\ Respond(errorResult(called, "update failed", BackendError), TRUE)
               /\ store' = store
          ELSE /\ store' = IF RowOf(id) \in DOMAIN store
                           THEN [store EXCEPT ![RowOf(id)] =
                                   IF backend = "sqlite" THEN SQLiteUpdateRow(@, c)
                                   ELSE ChromaUpdateMeta(c)]
                           ELSE store
               /\ Respond(textResult([called EXCEPT !.args = a, !.passed = p],
                                     "updated successfully", id), FALSE)
       /\ UNCHANGED <<seq, issued, gone, incs>>

\* handleDelete, lines 321-332
handleDelete(id, decodes, ok) ==
    LET r == Dispatched("delete_learning")
    IN /\ IF ~decodes
          THEN /\ Respond(errorResult([r EXCEPT !.decoded = FALSE],
                                   "invalid arguments", "json"), FALSE)
               /\ UNCHANGED <<store, gone, incs>>
          ELSE IF ~ok
          THEN /\ Respond(errorResult(Sent([r EXCEPT !.called = <<"Delete">>],
                                           << Post("/delete", FALSE) >>),
                                      "delete failed", BackendError), TRUE)
               /\ UNCHANGED <<store, gone, incs>>
          ELSE /\ store' = Without(store, RowOf(id))
               /\ incs' = IF backend = "sqlite" THEN Without(incs, RowOf(id)) ELSE incs
               /\ gone' = gone \cup ({RowOf(id)} \cap DOMAIN store)
               /\ Respond(textResult(Sent([r EXCEPT !.called = <<"Delete">>],
                                          << Post("/delete", TRUE) >>), "deleted", id),
                          FALSE)
       /\ UNCHANGED <<seq, issued>>

\* total += count over the categories of stats
RECURSIVE Total(_)
Total(stats) ==
    IF DOMAIN stats = {} THEN 0
    ELSE LET cat == CHOOSE k \in DOMAIN stats : TRUE
         IN stats[cat] + Total([ k \in DOMAIN stats \ {cat} |-> stats[k] ])

\* handleStats, lines 334-348
handleStats(ok) ==
    LET r == Dispatched("get_stats")
    IN /\ IF ~ok
          THEN Respond(errorResult(Sent([r EXCEPT !.called = <<"Stats">>],
                                        << Post("/get", FALSE) >>),
                                   "stats failed", BackendError), TRUE)
          ELSE Respond(textResult([Sent(r, << Post("/get", TRUE) >>) EXCEPT
                                      !.called = <<"Stats">>, !.stats = Stats,
                                            !.total = Total(Stats)],
                                  "Learnings by category", ""), FALSE)
       /\ UNCHANGED <<store, seq, issued, gone, incs>>

\* HandleTool, lines 191-208: the default case
handleUnknown(name) ==
    /\ name \notin ToolNames
    /\ Respond(errorResult(Dispatched(name), "unknown tool", name), FALSE)
    /\ UNCHANGED <<store, seq, issued, gone, incs>>

\* handleToolCall and HandleTool: one tools/call, dispatched by its name,
\* with every outcome the decoding and the backend can have
HandleTool(name, storeArgs, updateArgs, queries, ids, maxAdds) ==
    \/ name = "store_learning"
         /\ \E a \in storeArgs :
              \/ handleStore(a, FALSE, TRUE, maxAdds)
              \/ \E ok \in BOOLEAN : handleStore(a, TRUE, ok, maxAdds)
    \/ name = "lookup_context"
         /\ \E query \in queries, category \in Filters, limit \in Limits :
              \/ handleLookup(query, category, limit, FALSE, TRUE, TRUE, << >>, {})
              \/ handleLookup(query, category, limit, TRUE, FALSE, TRUE, << >>, {})
              \/ \E found \in Search(query, category,
                                     IF limit <= 0 THEN DefaultSearchLimit ELSE limit) :
                    \/ backend = "chroma"
                         /\ handleLookup(query, category, limit, TRUE, TRUE, FALSE, found, {})
                    \/ \E failed \in SUBSET { found[i].id : i \in DOMAIN found } :
                          handleLookup(query, category, limit, TRUE, TRUE, TRUE,
                                       found, failed)
    \/ name = "list_learnings"
         /\ \E category \in Filters, limit \in Limits, decodes \in BOOLEAN :
              \E cat \in Decoded(decodes, category, ""), lim \in Decoded(decodes, limit, 0) :
                 \/ handleList(cat, lim, decodes, FALSE, << >>)
                 \/ \E found \in List(cat, IF lim <= 0 THEN DefaultListLimit ELSE lim) :
                       handleList(cat, lim, decodes, TRUE, found)
    \/ name = "update_learning"
         /\ \E id \in ids, a \in updateArgs :
              \/ handleUpdate(id, a, FALSE, TRUE, TRUE)
              \/ handleUpdate(id, a, TRUE, TRUE, FALSE)
              \/ handleUpdate(id, a, TRUE, TRUE, TRUE)
              \/ backend = "chroma" /\ handleUpdate(id, a, TRUE, FALSE, TRUE)
    \/ name = "delete_learning"
         /\ \E id \in ids :
              \/ handleDelete(id, FALSE, TRUE)
              \/ \E ok \in BOOLEAN : handleDelete(id, TRUE, ok)
    \/ name = "get_stats" /\ \E ok \in BOOLEAN : handleStats(ok)
    \/ handleUnknown(name)

\* the clock of the tools' client: whole seconds pass between its calls
TickSecond ==
    /\ now + TicksPerSec <= MaxClock
    /\ now' = now + TicksPerSec
    /\ UNCHANGED <<backend, store, seq, pc, call, err, issued, gone, incs, race, result, rpc, fts, remote>>

\* the ids a client passes: those the backend assigns and, besides, an id
\* no learning was stored under
Ids == IdPool(MaxConcAdds) \cup {"01"}

\* every tool with every kind of argument, on a store of few learnings
NextTools ==
    \/ TickSecond
    \/ \E name \in ToolNames \cup {"bogus_tool"} :
          /\ HandleTool(name, StoreArgs, UpdateArgs, Queries, Ids, MaxConcAdds)
          /\ UNCHANGED rpc

SpecTools == Init /\ [][NextTools]_vars

\* the tools on a store of several learnings, with well-formed arguments
ShelfStoreArgs ==
    { a \in StoreArgs : a.content # "" /\ a.category \in validCategories \cup {""} }
ShelfUpdateArgs == { a \in UpdateArgs : a.content # "" }
ShelfQueries == { q \in Queries : q # "" }

NextShelf ==
    \/ TickSecond
    \/ \E name \in ToolNames \cup {"bogus_tool"} :
          /\ HandleTool(name, ShelfStoreArgs, ShelfUpdateArgs, ShelfQueries,
                        IdPool(MaxAdds), MaxAdds)
          /\ UNCHANGED rpc

SpecShelf == Init /\ [][NextShelf]_vars

---------------------------------------------------------------------------
(* The structured store with its full-text index: migrate creates the     *)
(* virtual table learnings_fts and three triggers, stopping at the first   *)
(* statement that fails; every statement on learnings runs the triggers    *)
(* that exist; Search tries the MATCH query and falls back when it errors. *)

\* the triggers in the order migrate creates them, lines 53-66
Triggers == <<"learnings_ai", "learnings_au", "learnings_ad">>

\* migrate, lines 47-73: the index after the first k of the four statements
\* succeeded
Migrated(k) ==
    [ table |-> k >= 1,
      triggers |-> { Triggers[i] : i \in 1..(k - 1) },
      index |-> << >> ]

IndexAddArgs ==
    { [category |-> "technical", content |-> "c1", tags |-> "t1", confidence |-> 9],
      [category |-> "general", content |-> "c2 t2", tags |-> "", confidence |-> 9] }
IndexUpdateArgs == { [content |-> "x1", tags |-> "t1", confidence |-> 7] }
IndexQueries == {" ", "T2", "c_", "x1"}

InitIndex ==
    /\ backend = "sqlite"
    /\ now = 0
    /\ store = << >>
    /\ seq = 0
    /\ pc = [p \in Procs |-> "idle"]
    /\ call = [p \in Procs |-> NoCall]
    /\ err = FALSE
    /\ issued = {}
    /\ gone = {}
    /\ incs = << >>
    /\ race = NoRace
    /\ result = NoResult
    /\ rpc = NoRPC
    /\ fts \in { Migrated(k) : k \in 0..4 }
    /\ remote = NoRemote

\* the operation op returned: the statements it ran and its error
Ran(op, statements, e) ==
    /\ result' = [Dispatched(op) EXCEPT !.called = statements, !.isError = e]
    /\ err' = e
    /\ UNCHANGED <<backend, now, pc, call, race, rpc, remote>>

\* the index after a trigger wrote the entry of row id (learnings_ai inserts
\* it; learnings_au deletes the old entry and inserts the new one)
Reindexed(trigger, id, r) ==
    IF trigger \in fts.triggers
    THEN [fts EXCEPT !.index = (id :> IndexEntry(r)) @@ @]
    ELSE fts

\* Add, lines 77-92, with the trigger learnings_ai
AddIndexed(a, ok) ==
    LET c == BackendCall("add", "", a.category, a)
        id == FormatInt(seq + 1)
    IN /\ seq < MaxAdds
       /\ IF ok
          THEN /\ seq' = seq + 1
               /\ store' = (id :> SQLiteInsertRow(c)) @@ store
               /\ incs' = (id :> 0) @@ incs
               /\ issued' = issued \cup {id}
               /\ fts' = Reindexed("learnings_ai", id, SQLiteInsertRow(c))
          ELSE UNCHANGED <<seq, store, incs, issued, fts>>
       /\ Ran("Add", <<"INSERT">>, ~ok)
       /\ UNCHANGED gone

\* Update, lines 163-169, with the trigger learnings_au
UpdateIndexed(id, a, ok) ==
    LET c == BackendCall("update", id, "", a)
        row == SQLiteRow(id)
    IN /\ IF ok /\ row \in DOMAIN store
          THEN /\ store' = [store EXCEPT ![row] = SQLiteUpdateRow(@, c)]
               /\ fts' = Reindexed("learnings_au", row, SQLiteUpdateRow(store[row], c))
          ELSE UNCHANGED <<store, fts>>
       /\ Ran("Update", <<"UPDATE">>, ~ok)
       /\ UNCHANGED <<seq, issued, gone, incs>>

\* Delete, lines 171-174, with the trigger learnings_ad
DeleteIndexed(id, ok) ==
    LET row == SQLiteRow(id)
    IN /\ IF ok
          THEN /\ store' = Without(store, row)
               /\ incs' = Without(incs, row)
               /\ gone' = gone \cup ({row} \cap DOMAIN store)
               /\ fts' = IF "learnings_ad" \in fts.triggers
                         THEN [fts EXCEPT !.index = Without(@, row)]
                         ELSE fts
          ELSE UNCHANGED <<store, incs, gone, fts>>
       /\ Ran("Delete", <<"DELETE">>, ~ok)
       /\ UNCHANGED <<seq, issued>>

\* IncrementUseCount, lines 176-178, with the trigger learnings_au
IncrementIndexed(id, ok) ==
    LET row == SQLiteRow(id)
    IN /\ row \in DOMAIN store => store[row].use_count < MaxIndexUse
       /\ IF ok /\ row \in DOMAIN store
          THEN /\ store' = [store EXCEPT ![row] = SQLiteIncrementRow(@)]
               /\ incs' = [incs EXCEPT ![row] = @ + 1]
               /\ fts' = Reindexed("learnings_au", row, SQLiteIncrementRow(store[row]))
          ELSE UNCHANGED <<store, incs, fts>>
       /\ Ran("IncrementUseCount", <<"UPDATE">>, FALSE)
       /\ UNCHANGED <<seq, issued, gone>>

\* Search, lines 94-141.  matched: the MATCH query was prepared, which takes
\* the virtual table; ok: so was the fallback query
SearchIndexed(query, category, limit, matched, ok) ==
    LET r == [Dispatched("Search") EXCEPT
                 !.args = [query |-> query, category |-> category, limit |-> limit],
                 !.called = IF matched THEN <<"MATCH">> ELSE <<"MATCH", "LIKE">>]
    IN /\ matched => fts.table
       /\ \/ /\ ~matched /\ ~ok
             /\ result' = errorResult(r, "", "engine error")
             /\ err' = TRUE
          \/ /\ matched \/ ok
             /\ \E found \in SQLiteSearchIn(fts.index, query, category, limit, matched) :
                   result' = [r EXCEPT !.learnings = found]
             /\ err' = FALSE
       /\ UNCHANGED <<backend, now, store, seq, pc, call, issued, gone, incs, race, rpc, fts, remote>>

NextIndex ==
    \/ \E a \in IndexAddArgs, ok \in BOOLEAN : AddIndexed(a, ok)
    \/ \E id \in IdPool(MaxAdds), a \in IndexUpdateArgs, ok \in BOOLEAN :
          UpdateIndexed(id, a, ok)
    \/ \E id \in IdPool(MaxAdds), ok \in BOOLEAN : DeleteIndexed(id, ok)
    \/ \E id \in IdPool(MaxAdds), ok \in BOOLEAN : IncrementIndexed(id, ok)
    \/ \E query \in IndexQueries, category \in Filters, limit \in Limits,
          matched \in BOOLEAN :
          \/ SearchIndexed(query, category, limit, matched, TRUE)
          \/ ~matched /\ SearchIndexed(query, category, limit, FALSE, FALSE)

SpecIndex == InitIndex /\ [][NextIndex]_vars

---------------------------------------------------------------------------
(* The transport (server.go): one client posting to /mcp, a single request *)
(* or a batch.  A single request is handled in one step; a batch is        *)
(* decoded, its elements are dispatched one step each in array order, and  *)
(* the response array is encoded at the end.  A panic of a tool handler     *)
(* ends the HTTP request without a response.                               *)

\* the error codes of the transport
ParseError == -32700
MethodNotFound == -32601
InvalidParams == -32602

\* a request without "id": Request.ID is nil
NoId == "nil"
RequestIds == {NoId, "a", "b"}

\* the id the client gives the i-th element of a batch, if it gives one
BatchId(i) == IF i = 1 THEN "a" ELSE "b"

\* the cases of dispatch
Methods ==
    {"initialize", "notifications/initialized", "ping", "tools/list", "tools/call"}

\* the tools the client calls through the transport, and their arguments
RPCTools == {"store_learning", "lookup_context"}
RPCStoreArgs ==
    { [category |-> "technical", content |-> "c1", tags |-> "t1", confidence |-> 9] }
RPCQueries == {"c"}

\* the envelopes that decode: id, method, and for tools/call whether params
\* decode and the tool they name
Requests ==
    { [id |-> id, method |-> m, decodes |-> TRUE, tool |-> ""] :
        id \in RequestIds,
        m \in (Methods \ {"tools/call"}) \cup {"bogus/method"} }
    \cup { [id |-> id, method |-> "tools/call", decodes |-> TRUE, tool |-> t] :
             id \in RequestIds, t \in RPCTools }
    \cup { [id |-> id, method |-> "tools/call", decodes |-> FALSE, tool |-> ""] :
             id \in RequestIds }

\* the single requests the client posts
Singles == { req \in Requests : req.id \in {NoId, "a"} }

MaxBatch == 2
Batches ==
    { reqs \in UNION { [1..n -> Requests] : n \in 0..MaxBatch } :
        \A i \in DOMAIN reqs : reqs[i].id \in {NoId, BatchId(i)} }

\* what dispatch returns: a result (nil: none) or an error code (0: none);
\* for a tools/call the ToolResult's flag and text; aborted: it panicked
Outcome(res, code) ==
    [ result |-> res, code |-> code, isError |-> FALSE, text |-> "",
      aborted |-> FALSE ]

\* dispatch, lines 169-186, and handleToolCall, lines 205-217: the error
\* dispatch returns for a request, 0 for none
\* a faulty dispatch without its default case: an unknown method returns
\* no error
RPCErrorNoDefault(req) ==
    IF req.method = "tools/call" /\ ~req.decodes THEN InvalidParams ELSE 0

RPCError(req) ==
    IF req.method \notin Methods THEN MethodNotFound
    ELSE IF req.method = "tools/call" /\ ~req.decodes THEN InvalidParams
    ELSE 0

\* the request reaches HandleTool
CallsTool(req) == req.method = "tools/call" /\ req.decodes

\* dispatch leaves the backend and the tools alone
Quiet ==
    UNCHANGED <<backend, now, store, seq, pc, call, err, issued, gone, incs, race,
                result, fts, remote>>

\* dispatch, lines 169-186: what it does
dispatch(req) ==
    IF CallsTool(req)
    THEN HandleTool(req.tool, RPCStoreArgs, UpdateArgs, RPCQueries, Ids, MaxConcAdds)
    ELSE Quiet

\* dispatch, lines 169-186: what it returns, r being the ToolResult of the
\* call it made, if any
Returns(req, r) ==
    IF RPCError(req) # 0 THEN Outcome("nil", RPCError(req))
    ELSE IF req.method = "initialize" THEN Outcome("serverInfo", 0)
    ELSE IF req.method = "notifications/initialized" THEN Outcome("nil", 0)
    ELSE IF req.method = "ping" THEN Outcome("{}", 0)
    ELSE IF req.method = "tools/list" THEN Outcome("tools", 0)
    ELSE [ result |-> "ToolResult", code |-> 0, isError |-> r.isError,
           text |-> r.text, aborted |-> r.aborted ]

\* Response{JSONRPC: "2.0", ID: req.ID} with the error or else the result,
\* as encoded: a nil ID and a nil result are left out (omitempty)
Response(id, out) ==
    [ id |-> id, code |-> out.code,
      result |-> IF out.code # 0 THEN "nil" ELSE out.result,
      isError |-> out.isError, text |-> out.text ]

\* no HTTP request is being handled
Idle == rpc.kind = "none" \/ rpc.done

\* writeError(w, nil, -32700, "parse error"), lines 101-104 and 126-129
handleParseError ==
    /\ Idle
    /\ rpc' = [NoRPC EXCEPT
                 !.kind = "malformed", !.done = TRUE,
                 !.body = [encoding |-> "object",
                           responses |-> << Response(NoId, Outcome("nil", ParseError)) >>]]
    /\ Quiet

\* handlePost, lines 85-122: a single request
handlePost(req) ==
    /\ Idle
    /\ dispatch(req)
    /\ rpc' = LET out == Returns(req, result')
              IN [NoRPC EXCEPT
                    !.kind = "single", !.reqs = << req >>, !.log = << out >>,
                    !.done = TRUE, !.aborted = out.aborted,
                    !.body = IF out.aborted \/ (req.id = NoId /\ out.code = 0)
                             THEN NoBody
                             ELSE [encoding |-> "object",
                                   responses |-> << Response(req.id, out) >>]]

\* handleBatch, lines 124-129: the array decoded
handleBatch(reqs) ==
    /\ Idle
    /\ rpc' = [NoRPC EXCEPT !.kind = "batch", !.reqs = reqs]
    /\ Quiet

\* handleBatch, lines 131-142: one turn of the loop
handleBatchElement ==
    /\ rpc.kind = "batch" /\ ~rpc.done
    /\ Len(rpc.log) < Len(rpc.reqs)
    /\ LET req == rpc.reqs[Len(rpc.log) + 1]
       IN /\ dispatch(req)
          /\ rpc' = LET out == Returns(req, result')
                    IN IF out.aborted
                       THEN [rpc EXCEPT !.log = Append(@, out), !.done = TRUE,
                                        !.aborted = TRUE]
                       ELSE [rpc EXCEPT
                               !.log = Append(@, out),
                               !.responses = IF req.id # NoId
                                             THEN Append(@, Response(req.id, out))
                                             ELSE @]

\* handleBatch, lines 144-146: the responses encoded (a nil slice as null)
handleBatchEncode ==
    /\ rpc.kind = "batch" /\ ~rpc.done
    /\ Len(rpc.log) = Len(rpc.reqs)
    /\ rpc' = [rpc EXCEPT
                 !.done = TRUE,
                 !.body = [encoding |-> IF rpc.responses = << >> THEN "null" ELSE "array",
                           responses |-> rpc.responses]]
    /\ Quiet

NextRPC ==
    \/ handleParseError
    \/ \E req \in Singles : handlePost(req)
    \/ \E reqs \in Batches : handleBatch(reqs)
    \/ handleBatchElement
    \/ handleBatchEncode

SpecRPC == Init /\ [][NextRPC]_vars

---------------------------------------------------------------------------
(* The remote backend and its collaborators (backend_chroma.go): one       *)
(* caller; the embedding service and the collection store answer as they   *)
(* will.  A response of the collection store is any response that parses:  *)
(* the collection is shared with other writers, so its arrays and its      *)
(* metadata values need not be those this backend wrote.                   *)

\* a JSON value of a metadata map as json.Unmarshal leaves it in a
\* map[string]any: absent (no such key), null, a string, a string in RFC 3339
\* form (value: its seconds), a number (float64, in tenths) or a bool
Absent == [type |-> "absent"]
Null == [type |-> "null"]
Str(s) == [type |-> "string", value |-> s]
Time(sec) == [type |-> "timestamp", value |-> sec]
Num(tenths) == [type |-> "number", tenths |-> tenths]
Bool(b) == [type |-> "bool", value |-> b]

\* the zero time.Time, which is before every clock reading
ZeroTime == -1

\* v, ok := meta[key].(string)
AsString(v) == IF v.type = "string" THEN v.value ELSE ""

\* meta[key].(float64), in tenths
AsFloat(v) == IF v.type = "number" THEN v.tenths ELSE 0

\* the type switch on meta["use_count"]: int(n) of a float64 (the case int
\* never meets a value decoded from JSON)
AsCount(v) == IF v.type = "number" THEN v.tenths \div 10 ELSE 0

\* meta[key].(string), then time.Parse(time.RFC3339, v)
AsTime(v) == IF v.type = "timestamp" THEN ParseRFC3339(v.value) ELSE ZeroTime

\* a faulty decoding that gives up on the whole map at the first field of an
\* unexpected type
decodeMetaOrNothing(id, doc, meta) ==
    IF /\ meta.category.type = "string" /\ meta.tags.type = "string"
       /\ meta.confidence.type = "number" /\ meta.use_count.type = "number"
       /\ meta.created_at.type = "timestamp" /\ meta.updated_at.type = "timestamp"
    THEN Learning(id, meta.category.value, doc, meta.tags.value,
                  meta.confidence.tenths, meta.use_count.tenths \div 10,
                  ParseRFC3339(meta.created_at.value),
                  ParseRFC3339(meta.updated_at.value))
    ELSE Learning(id, "", doc, "", 0, 0, ZeroTime, ZeroTime)

\* metaToLearning, lines 430-460, on a metadata map of any JSON values
decodeMeta(id, doc, meta) ==
    Learning(id, AsString(meta.category), doc, AsString(meta.tags),
             AsFloat(meta.confidence), AsCount(meta.use_count),
             AsTime(meta.created_at), AsTime(meta.updated_at))

\* map[string]any{}: the metadata of a record the response has none for
EmptyMeta ==
    [ category |-> Absent, tags |-> Absent, confidence |-> Absent,
      use_count |-> Absent, created_at |-> Absent, updated_at |-> Absent ]

\* the metadata maps the collection store may return
Metas ==
    [ category : {Absent, Str("technical"), Num(10)},
      tags : {Str("t1"), Bool(TRUE)},
      confidence : {Num(9), Null},
      use_count : {Num(20), Num(15), Str("2")},
      created_at : {Time(1), Str("bogus")},
      updated_at : {Time(1), Absent} ]

\* the metadata this backend writes (Add, lines 154-161)
WrittenMeta ==
    [ category |-> Str("technical"), tags |-> Str("t1"), confidence |-> Num(9),
      use_count |-> Num(0), created_at |-> Time(0), updated_at |-> Time(0) ]

\* chromaGetResponse, decoded: parallel arrays, documents and metadatas
\* possibly shorter than ids
GetResponses ==
    { [ids |-> << "0" >>, documents |-> docs, metadatas |-> metas] :
        docs \in { << >>, << "c1" >> },
        metas \in { << >> } \cup { << m >> : m \in Metas } }

\* the zero chromaGetResponse, which a response that does not parse leaves
NoGetResponse == [ids |-> << >>, documents |-> << >>, metadatas |-> << >>]

\* chromaGetToLearnings, lines 414-428
chromaGetToLearnings(resp) ==
    [ i \in DOMAIN resp.ids |->
        decodeMeta(resp.ids[i],
                   IF i <= Len(resp.documents) THEN resp.documents[i] ELSE "",
                   IF i <= Len(resp.metadatas) THEN resp.metadatas[i] ELSE EmptyMeta) ]

\* embed, lines 363-376, by the answer of the embedding service: a vector; no
\* answer (the request fails); a body that is no JSON; or a JSON body
\* without an embedding, as an error status sends it (the status is not
\* read), which decodes to a nil vector and no error
EmbedAnswers == {"vector", "unreachable", "undecodable", "refused"}
embed(answer) ==
    [ failed |-> answer \in {"unreachable", "undecodable"},
      vector |-> IF answer = "vector" THEN "vector" ELSE "nil" ]

\* a request sent: to the embedding service (path /api/embeddings) or to the
\* collection store, with what its body carries and whether it succeeded
\* (the embedding service: whether it answered with a vector)
Request(path, carries, ok) == [path |-> path, carries |-> carries, ok |-> ok]

\* the requests of an operation that embeds text when a model is configured
\* and then posts to path: the embeddings field of the body holds the vector
\* embed returned without error, also a nil one; without it the body
\* carries plain (the query text of Search, nothing more for Add)
EmbedAndPost(path, plain, answer, ok) ==
    IF remote.model
    THEN << Request("/api/embeddings", "text", answer = "vector"),
            Request(path, IF embed(answer).failed THEN plain
                          ELSE IF embed(answer).vector = "vector" THEN "vector"
                          ELSE "nil vector", ok) >>
    ELSE << Request(path, plain, ok) >>

\* chromaQueryResponse, decoded: ids[0], and documents[0] and metadatas[0]
\* where the outer array has an element (present)
QueryResponses ==
    { [ids |-> ids, documents |-> docs, metadatas |-> metas] :
        ids \in { << >>, << "0" >>, << "0", "1" >> },
        docs \in { [present |-> FALSE, items |-> << >>],
                   [present |-> TRUE, items |-> << "c1" >>],
                   [present |-> TRUE, items |-> << "c1", "c2" >>] },
        metas \in { [present |-> FALSE, items |-> << >>],
                    [present |-> TRUE, items |-> << WrittenMeta >>],
                    [present |-> TRUE, items |-> << WrittenMeta, EmptyMeta >>] } }

\* the zero chromaQueryResponse
NoQueryResponse ==
    [ ids |-> << >>, documents |-> [present |-> FALSE, items |-> << >>],
      metadatas |-> [present |-> FALSE, items |-> << >>] ]

\* Search, line 225, and chromaResultsToLearnings, lines 406-412: the index
\* expressions resp.Documents[0], resp.Metadatas[0], docs[i], metas[i] are in
\* range
InRange(resp) ==
    /\ resp.documents.present /\ resp.metadatas.present
    /\ Len(resp.ids) <= Len(resp.documents.items)
    /\ Len(resp.ids) <= Len(resp.metadatas.items)

\* chromaResultsToLearnings, lines 406-412
chromaResultsToLearnings(resp) ==
    [ i \in DOMAIN resp.ids |->
        decodeMeta(resp.ids[i], resp.documents.items[i], resp.metadatas.items[i]) ]

InitRemote ==
    /\ backend = "chroma"
    /\ now = 0
    /\ store = << >>
    /\ seq = 0
    /\ pc = [p \in Procs |-> "idle"]
    /\ call = [p \in Procs |-> NoCall]
    /\ err = FALSE
    /\ issued = {}
    /\ gone = {}
    /\ incs = << >>
    /\ race = NoRace
    /\ result = NoResult
    /\ rpc = NoRPC
    /\ fts = NoFTS
    /\ remote \in { [NoRemote EXCEPT !.model = m] : m \in BOOLEAN }

\* the operation returned r
Returning(r, e) ==
    /\ result' = r
    /\ err' = e
    /\ UNCHANGED <<backend, now, seq, pc, call, gone, incs, race, rpc, fts, remote>>

\* the learnings the caller of the remote backend may add
MaxRemoteAdds == 1

\* Add, lines 147-183.  answer: the embedding service's; ok: the write
\* succeeded
RemoteAdd(a, answer, ok) ==
    LET id == FormatInt(now)
        c == [NoCall EXCEPT !.op = "add", !.id = id, !.category = a.category,
                            !.content = a.content, !.tags = a.tags,
                            !.confidence = a.confidence, !.now = now]
        r == [Dispatched("Add") EXCEPT
                 !.requests = EmbedAndPost("/add", "no vector", answer, ok)]
    IN /\ Cardinality(DOMAIN store) < MaxRemoteAdds
       /\ IF ok
          THEN /\ store' = IF id \in DOMAIN store THEN store
                           ELSE (id :> ChromaAddMeta(c)) @@ store
               /\ issued' = issued \cup {id}
               /\ Returning([r EXCEPT !.learnings = << ChromaAddResult(c) >>], FALSE)
          ELSE /\ UNCHANGED <<store, issued>>
               /\ Returning(errorResult(r, "failed", BackendError), TRUE)

\* what comes of a request to the collection store: it fails (no answer or
\* a status of 400 and above), or its response is no JSON of the expected
\* shape, or it is
Replies == {"failed", "unparseable", "parsed"}

\* Search, lines 185-226.  answer: the embedding service's; reply, resp: the
\* collection store's to the query request
RemoteSearch(query, answer, reply, resp) ==
    LET r == [Dispatched("Search") EXCEPT
                 !.args = [query |-> query],
                 !.passed = << resp >>,
                 !.requests = EmbedAndPost("/query", "text", answer,
                                           reply # "failed")]
    IN /\ IF reply # "parsed"
          THEN Returning(errorResult(r, reply, BackendError), TRUE)
          ELSE IF resp.ids = << >>
          THEN Returning(r, FALSE)
          ELSE IF ~InRange(resp)
          THEN Returning([r EXCEPT !.aborted = TRUE], FALSE)
          ELSE Returning([r EXCEPT !.learnings = chromaResultsToLearnings(resp)], FALSE)
       /\ UNCHANGED <<store, issued>>

\* List, lines 228-255, on any response of the get
RemoteList(reply, resp) ==
    LET r == [Dispatched("List") EXCEPT
                 !.requests = << Request("/get", "where", reply # "failed") >>,
                 !.passed = << resp >>]
    IN /\ IF reply # "parsed"
          THEN Returning(errorResult(r, reply, BackendError), TRUE)
          ELSE Returning([r EXCEPT
                            !.learnings = sortByUpdated(chromaGetToLearnings(resp))],
                         FALSE)
       /\ UNCHANGED <<store, issued>>

\* the clock of the caller
RemoteTick ==
    /\ now < MaxClock
    /\ now' = now + 1
    /\ UNCHANGED <<backend, store, seq, pc, call, err, issued, gone, incs, race,
                   result, rpc, fts, remote>>

NextRemote ==
    \/ RemoteTick
    \/ \E a \in RPCStoreArgs, answer \in EmbedAnswers, ok \in BOOLEAN :
          RemoteAdd(a, answer, ok)
    \/ \E query \in RPCQueries, answer \in EmbedAnswers, reply \in Replies :
          \E resp \in IF reply = "parsed" THEN QueryResponses ELSE {NoQueryResponse} :
             RemoteSearch(query, answer, reply, resp)
    \/ \E reply \in Replies :
          \E resp \in IF reply = "parsed" THEN GetResponses ELSE {NoGetResponse} :
             RemoteList(reply, resp)

SpecRemote == InitRemote /\ [][NextRemote]_vars

---------------------------------------------------------------------------
(* Resolving the collection (ensureCollection, lines 113-143): two         *)
(* instances of the remote backend are constructed at once against one     *)
(* collection store that has no collection of the configured name.  The   *)
(* store handles one request at a time.                                    *)

Instances == {1, 2}

\* cfg.Collection
Collection == "learnings"

\* line 131: the create request asks for the collection if it exists
GetOrCreateOff == FALSE
GetOrCreate == TRUE

\* the collection of the name in a set of collections, as the loop of lines
\* 119-124 finds it
Named(cols, name) == { c \in cols : c.name = name }

\* the id the store gives the next collection it creates
NewId(cols) == FormatInt(Cardinality(cols))

InitCollections ==
    /\ backend = "chroma"
    /\ now = 0
    /\ store = << >>
    /\ seq = 0
    /\ pc = [p \in Procs |-> "idle"]
    /\ call = [p \in Procs |-> NoCall]
    /\ err = FALSE
    /\ issued = {}
    /\ gone = {}
    /\ incs = << >>
    /\ race = NoRace
    /\ result = NoResult
    /\ rpc = NoRPC
    /\ fts = NoFTS
    /\ \E others \in { {}, { [name |-> "other", id |-> "0"] } } :
          remote = [ model |-> FALSE, collections |-> others,
                     at |-> [i \in Instances |-> "new"],
                     list |-> [i \in Instances |-> ""],
                     collectionID |-> [i \in Instances |-> ""],
                     posted |-> [i \in Instances |-> FALSE],
                     constructed |-> [i \in Instances |-> "pending"],
                     cause |-> [i \in Instances |-> ""],
                     used |-> [i \in Instances |-> {}] ]

\* a step of the construction or of the use of an instance
Resolving(r) ==
    /\ remote' = r
    /\ UNCHANGED <<backend, now, store, seq, pc, call, err, issued, gone, incs,
                   race, result, rpc, fts>>

\* NewChromaBackend, lines 91-96, on what ensureCollection returned
Constructed(r, i, id) ==
    [r EXCEPT !.at[i] = "returned", !.collectionID[i] = id,
              !.constructed[i] = "ok"]
Failed(r, i, cause) ==
    [r EXCEPT !.at[i] = "returned", !.constructed[i] = "error",
              !.cause[i] = cause]

\* ensureCollection, lines 115-126: list the collections and find by name
ListCollections(i, reply) ==
    /\ remote.at[i] = "new"
    /\ LET found == Named(remote.collections, Collection) IN
          IF reply = "parsed" /\ found # {}
          THEN Resolving(Constructed([remote EXCEPT !.list[i] = reply], i,
                                     (CHOOSE c \in found : TRUE).id))
          ELSE Resolving([remote EXCEPT !.at[i] = "listed", !.list[i] = reply])

\* what comes of the create request: as of any request, or the store acts on
\* it and its answer is lost (the client times out)
CreateReplies == Replies \cup {"lost"}

\* ensureCollection, lines 128-142: create the collection, or get it.  The
\* store creates the collection unless it has one of the name, which it
\* returns when asked to, and refuses to create again otherwise
CreateCollection(i, reply) ==
    /\ remote.at[i] = "listed"
    /\ LET found == Named(remote.collections, Collection)
           col == IF found # {} THEN CHOOSE c \in found : TRUE
                  ELSE [name |-> Collection, id |-> NewId(remote.collections)]
           r == [remote EXCEPT !.posted[i] = TRUE]
       IN IF reply = "failed"
          THEN Resolving(Failed(r, i, "failed"))
          ELSE IF found # {} /\ ~GetOrCreate
          THEN Resolving(Failed(r, i, "conflict"))
          ELSE LET made == [r EXCEPT !.collections = @ \cup {col}] IN
                  IF reply \in {"unparseable", "lost"}
                  THEN Resolving(Failed(made, i, reply))
                  ELSE Resolving(Constructed(made, i, col.id))

\* colPath, lines 107-109: a request of a constructed instance to its
\* collection
UseCollection(i) ==
    /\ remote.constructed[i] = "ok"
    /\ remote.collectionID[i] \notin remote.used[i]
    /\ Resolving([remote EXCEPT !.used[i] = @ \cup {remote.collectionID[i]}])

NextCollections ==
    \/ \E i \in Instances, reply \in Replies : ListCollections(i, reply)
    \/ \E i \in Instances, reply \in CreateReplies : CreateCollection(i, reply)
    \/ \E i \in Instances : UseCollection(i)

SpecCollections == InitCollections /\ [][NextCollections]_vars

---------------------------------------------------------------------------
(* Two calls racing on one record: each caller makes its one planned call,   *)
(* IncrementUseCount or Update, on the same id, and no request fails.  The   *)
(* record was added at clock 0 and incremented since.                        *)
RaceId == IF backend = "sqlite" THEN FormatInt(1) ELSE FormatInt(0)

RaceRow(a, c) ==
    LET added == [NoCall EXCEPT !.category = a.category, !.content = a.content,
                                !.tags = a.tags, !.confidence = a.confidence,
                                !.now = 0]
    IN [ (IF backend = "sqlite" THEN SQLiteInsertRow(added) ELSE ChromaAddMeta(added))
         EXCEPT !.use_count = c ]

InitRace ==
    /\ backend \in {"sqlite", "chroma"}
    /\ now = 0
    /\ \E a \in AddArgs, c \in 0..(MaxUse - 2), plan \in [Procs -> {"inc", "update"}] :
          /\ store = (RaceId :> RaceRow(a, c))
          /\ incs = IF backend = "sqlite" THEN (RaceId :> c) ELSE << >>
          /\ race = [ id |-> RaceId, row |-> << RaceRow(a, c) >>, plan |-> plan ]
    /\ seq = IF backend = "sqlite" THEN 1 ELSE 0
    /\ pc = [p \in Procs |-> "idle"]
    /\ call = [p \in Procs |-> Planned]
    /\ err = FALSE
    /\ issued = {RaceId}
    /\ gone = {}
    /\ result = NoResult
    /\ rpc = NoRPC
    /\ fts = NoFTS
    /\ remote = NoRemote

\* the planned call of p begins
RaceBegin(p) ==
    /\ call[p] = Planned
    /\ \/ race.plan[p] = "inc" /\ SQLiteIncrementUseCount(p, race.id, TRUE)
       \/ race.plan[p] = "update"
            /\ \E a \in RaceUpdArgs : SQLiteUpdateBegin(p, race.id, a)
       \/ race.plan[p] = "inc" /\ ChromaIncrementGet(p, race.id, TRUE)
       \/ race.plan[p] = "update"
            /\ \E a \in RaceUpdArgs : ChromaUpdateBegin(p, race.id, a)

\* a call in flight takes its next step
RaceStep(p) ==
    \/ SQLiteUpdateExec(p, TRUE)
    \/ ChromaUpdateGet(p, TRUE)
    \/ ChromaUpdatePost(p, TRUE)
    \/ ChromaIncrementPost(p, TRUE)

NextRace ==
    \/ Tick
    \/ \E p \in Procs : RaceBegin(p)
    \/ \E p \in Procs : RaceStep(p)

SpecRace == InitRace /\ [][NextRace]_vars

\* the planned call of p has returned
Done(p) == pc[p] = "idle" /\ call[p] = NoCall

---------------------------------------------------------------------------
(* Steps of the calls, as the properties below name them *)

\* the Add of p returns without error
AddReturnsOK(p) ==
    pc[p] \in {"sqlite_add", "chroma_add"} /\ pc'[p] = "idle" /\ ~err'

\* the Learning that Add returns
AddResult(p) ==
    IF backend = "sqlite" THEN SQLiteAddResult(call[p], seq')
    ELSE ChromaAddResult(call[p])

\* the Update of p returns without error
UpdateReturnsOK(p) ==
    pc[p] \in {"sqlite_update", "chroma_update_post"} /\ pc'[p] = "idle" /\ ~err'

\* the remote IncrementUseCount of p gets its rewrite of a stored record accepted
ChromaIncrementWrites(p) ==
    /\ backend = "chroma"
    /\ pc[p] = "chroma_inc_post" /\ pc'[p] = "idle" /\ ~err'
    /\ call[p].id \in DOMAIN store

\* the structured store executes an IncrementUseCount statement on the row id
SQLiteIncrementRuns(id) ==
    /\ backend = "sqlite"
    /\ id \in DOMAIN incs /\ id \in DOMAIN incs'
    /\ incs'[id] = incs[id] + 1

Key(r) == << r.content, r.tags, r.confidence >>

---------------------------------------------------------------------------
(* The claims *)

\* C1: in both backends the stored use_count of a learning never decreases
\* from one state to the next while the learning exists.
C1_UseCountNeverDecreases ==
    [][ \A id \in DOMAIN store \cap DOMAIN store' :
          store'[id].use_count >= store[id].use_count ]_vars

\* C2: on the structured store the use_count of a row is exactly the number
\* of IncrementUseCount statements issued on it since it was added with
\* use_count 0, in every interleaving with Update, Add and Delete calls.
C2_ExactUseCount ==
    \A id \in DOMAIN store : store[id].use_count = incs[id]

\* C2 witness: two increments counted on a row that an Update has rewritten.
C2_TwoIncrementsAndUpdate ==
    \E id \in DOMAIN store :
        /\ backend = "sqlite"
        /\ incs[id] >= 2
        /\ Key(store[id]) \in { Key(a) : a \in UpdArgs }

\* C3: on the remote backend, when the two racing calls are both
\* IncrementUseCount and both have returned, the use_count is the initial
\* value plus 1 or plus 2.
C3_TwoIncrements ==
    (backend = "chroma" /\ \A p \in Procs : race.plan[p] = "inc" /\ Done(p))
        => /\ race.id \in DOMAIN store
           /\ store[race.id].use_count - race.row[1].use_count \in {1, 2}

\* C3 witness: both increments have returned and one of them is lost.
C3_LostIncrement ==
    /\ backend = "chroma"
    /\ \A p \in Procs : race.plan[p] = "inc" /\ Done(p)
    /\ store[race.id].use_count = race.row[1].use_count + 1

\* C4: on the remote backend, when an Update races an IncrementUseCount (or
\* another Update) on one id and both have returned, no caller saw an error
\* and the record is one of: the Update's values with the increment, the
\* pre-Update values with the increment (the Update is lost), the Update's
\* values without the increment (the increment is lost); two Updates leave
\* the values of one of them.  Category and created_at are as before.
C4_LostUpdateOutcomes ==
    (/\ backend = "chroma"
     /\ \A p \in Procs : Done(p)
     /\ \E p \in Procs : race.plan[p] = "update")
        => LET r == store[race.id]
               r0 == race.row[1]
               New == { Key(a) : a \in RaceUpdArgs }
           IN /\ ~err
              /\ r.category = r0.category
              /\ r.created_at = r0.created_at
              /\ IF \A p \in Procs : race.plan[p] = "update"
                 THEN Key(r) \in New /\ r.use_count = r0.use_count
                 ELSE \/ Key(r) \in New /\ r.use_count = r0.use_count + 1
                      \/ Key(r) = Key(r0) /\ r.use_count = r0.use_count + 1
                      \/ Key(r) \in New /\ r.use_count = r0.use_count

\* C4 witness: an Update and an IncrementUseCount have both returned without
\* error and the record holds the pre-Update content, tags and confidence.
C4_UpdateOverwritten ==
    /\ backend = "chroma"
    /\ \A p \in Procs : Done(p)
    /\ { race.plan[p] : p \in Procs } = {"inc", "update"}
    /\ ~err
    /\ Key(store[race.id]) = Key(race.row[1])
    /\ store[race.id].use_count = race.row[1].use_count + 1

\* C4, the other anomaly: the Update's values are stored and the increment,
\* which returned too, is lost.
C4_IncrementOverwritten ==
    /\ backend = "chroma"
    /\ \A p \in Procs : Done(p)
    /\ { race.plan[p] : p \in Procs } = {"inc", "update"}
    /\ ~err
    /\ Key(store[race.id]) \in { Key(a) : a \in RaceUpdArgs }
    /\ store[race.id].use_count = race.row[1].use_count

\* C5: in both backends, an Update that returns without error for an
\* existing id, with no concurrent call, stores the given content, tags and
\* confidence and a refreshed updated_at, keeps category, use_count and
\* created_at, and leaves every other learning unchanged.
C5_UpdateFrame ==
    [][ \A p \in Procs :
          (UpdateReturnsOK(p) /\ call[p].id \in DOMAIN store)
            => LET c == call[p]
                   old == StoredIn(store, c.id)
               IN /\ DOMAIN store' = DOMAIN store
                  /\ StoredIn(store', c.id) =
                        [old EXCEPT !.content = c.content, !.tags = c.tags,
                                    !.confidence = c.confidence,
                                    !.updated_at = Stamp(c.now)]
                  /\ \A o \in DOMAIN store \ {c.id} : store'[o] = store[o] ]_vars

\* C6: no Add that returns without error returns an id that an earlier Add
\* returned, whether that learning is still stored or was deleted since.
C6_FreshIds ==
    [][ \A p \in Procs : AddReturnsOK(p) => AddResult(p).id \notin issued ]_vars

\* C7: a learning that a Delete which returned without error removed is
\* never again among the stored rows that Search, List and Stats read.
C7_DeleteFinal ==
    \A id \in gone : id \notin DOMAIN store

\* C8: an Add that returns without error returns a Learning with a non-empty
\* id, use_count 0, updated_at = created_at and the arguments, and the store
\* then holds exactly one more learning, under that id, with those values.
C8_AddPersists ==
    [][ \A p \in Procs :
          AddReturnsOK(p)
            => LET c == call[p]
                   l == AddResult(p)
               IN /\ l.id # ""
                  /\ l.use_count = 0
                  /\ l.updated_at = l.created_at
                  /\ l.category = c.category /\ Key(l) = Key(c)
                  /\ l.id \notin DOMAIN store
                  /\ DOMAIN store' = DOMAIN store \cup {l.id}
                  /\ \A o \in DOMAIN store : store'[o] = store[o]
                  /\ StoredIn(store', l.id).category = c.category
                  /\ Key(StoredIn(store', l.id)) = Key(c)
                  /\ StoredIn(store', l.id).use_count = 0 ]_vars

C10_UpdatedNotBeforeCreated ==
    \A id \in DOMAIN store : Stored(id).updated_at >= Stored(id).created_at

---------------------------------------------------------------------------
(* The tools' results, as the properties below name them *)

\* the tool call that returned last was of the tool name and gave a result
\* without the error flag
Returned(name) ==
    result.tool = name /\ ~result.isError /\ ~result.aborted

\* this step is a call of the tool name (the clock stands still during it)
ToolStep(name) == result'.tool = name /\ now' = now

\* the ids of the learnings a result lists
ResultIds(r) == { r.learnings[i].id : i \in DOMAIN r.learnings }

\* the number of stored records of a category
CountOf(category) ==
    Cardinality({ id \in DOMAIN store : store[id].category = category })

\* C11: when a non-empty category filter is passed to Search (lookup_context)
\* or List (list_learnings), every learning returned has exactly that
\* category, on both backends and on both search paths of the structured
\* store.
C11_CategoryFilter ==
    \A name \in {"lookup_context", "list_learnings"} :
       (Returned(name) /\ result.args.category # "")
          => \A i \in DOMAIN result.learnings :
                result.learnings[i].category = result.args.category

\* a filtered Search or List returned a learning while a learning of another
\* category was stored
C11_FilteredOut ==
    /\ \/ Returned("lookup_context")
       \/ Returned("list_learnings")
    /\ result.args.category = "technical"
    /\ result.learnings # << >>
    /\ \E id \in DOMAIN store : store[id].category # "technical"

\* C12: List returns learnings in non-increasing updated_at order, at most
\* limit of them (50 when limit <= 0), and an empty result without error on
\* an empty store.
C12_ListOrder ==
    Returned("list_learnings") =>
       LET ls == result.learnings
           limit == IF result.args.limit <= 0 THEN DefaultListLimit
                    ELSE result.args.limit
       IN /\ \A i, j \in DOMAIN ls : i < j => ls[i].updated_at >= ls[j].updated_at
          /\ Len(ls) <= limit
          /\ store = << >> => ls = << >> /\ result.text = "No learnings stored yet"

\* List returned two learnings, the one updated last first
C12_TwoListed ==
    /\ Returned("list_learnings")
    /\ Len(result.learnings) = 2
    /\ result.learnings[1].updated_at > result.learnings[2].updated_at

\* List cut its result at the limit
C12_Limited ==
    /\ Returned("list_learnings")
    /\ result.args.limit = 1
    /\ Len(result.learnings) = 1
    /\ Cardinality(DOMAIN store) = 2

\* C13: Stats returns, for every category, exactly the number of stored
\* learnings of that category, and the total get_stats renders is the number
\* of stored learnings.
C13_StatsExact ==
    Returned("get_stats") =>
       /\ DOMAIN result.stats = { store[id].category : id \in DOMAIN store }
       /\ \A cat \in DOMAIN result.stats : result.stats[cat] = CountOf(cat)
       /\ result.total = Cardinality(DOMAIN store)

\* Stats counted two learnings of one category
C13_TwoOfOneCategory ==
    /\ Returned("get_stats")
    /\ \E cat \in DOMAIN result.stats : result.stats[cat] = 2

\* C14: after store_learning with category C, content S, tags T and
\* confidence K returns an id, the learning stored under that id has those
\* fields (as the handler passed them to Add) and use_count 0; a
\* lookup_context whose increments are all executed leaves every learning it
\* returned with use_count one higher and nothing else changed, and every
\* other learning as it was, so that k lookups returning the learning count
\* exactly k.
C14_RoundTrip ==
    [][ /\ (ToolStep("store_learning") /\ ~result'.isError) =>
              LET id == result'.learnings[1].id
                  p == result'.passed
              IN /\ id \in DOMAIN store'
                 /\ store'[id].category = p.category
                 /\ store'[id].content = p.content
                 /\ store'[id].tags = p.tags
                 /\ store'[id].confidence = p.confidence
                 /\ store'[id].use_count = 0
                 /\ \A other \in DOMAIN store \ {id} : store'[other] = store[other]
        /\ (ToolStep("lookup_context") /\ ~result'.isError /\ ~result'.aborted
              /\ result'.dropped = {}) =>
              /\ DOMAIN store' = DOMAIN store
              /\ \A id \in DOMAIN store :
                    store'[id] = IF id \in ResultIds(result')
                                 THEN [store[id] EXCEPT !.use_count = @ + 1]
                                 ELSE store[id]
      ]_vars

\* C15: the category of a stored learning is always one of the six of
\* validCategories: store_learning stores an empty or unrecognized category
\* as 'general'.
C15_CategoryClosed ==
    /\ \A id \in DOMAIN store : store[id].category \in validCategories
    /\ Returned("store_learning") =>
          result.passed.category = (IF result.args.category \in validCategories
                                    THEN result.args.category ELSE "general")

\* C16: store_learning and update_learning give an error-flagged result for
\* an empty content and leave the store as it was, so that no stored
\* learning has an empty content.
C16_ContentRequired ==
    /\ \A id \in DOMAIN store : store[id].content # ""
    /\ \A name \in {"store_learning", "update_learning"} :
          Returned(name) => result.args.content # ""

\* C17: store_learning and update_learning pass confidence 0.8 to the
\* backend when the confidence is omitted or 0, and any other confidence as
\* given; the record they write holds the confidence passed.
C17_DefaultConfidence ==
    [][ /\ (ToolStep("store_learning") /\ ~result'.isError) =>
              LET id == result'.learnings[1].id
                  k == result'.args.confidence
              IN /\ result'.passed.confidence = (IF k = 0 THEN DefaultConfidence ELSE k)
                 /\ id \notin DOMAIN store =>
                       store'[id].confidence = result'.passed.confidence
        /\ (ToolStep("update_learning") /\ ~result'.isError) =>
              LET id == result'.cause
                  k == result'.args.confidence
              IN /\ result'.passed.confidence = (IF k = 0 THEN DefaultConfidence ELSE k)
                 /\ id \in DOMAIN store =>
                       store'[id].confidence = result'.passed.confidence
      ]_vars

\* store_learning without a confidence stored a learning of confidence 0.8
C17_StoredWithDefault ==
    /\ Returned("store_learning")
    /\ result.args.confidence = 0
    /\ result.learnings[1].id \in DOMAIN store
    /\ store[result.learnings[1].id].confidence = DefaultConfidence

\* update_learning with a confidence above 0.8 wrote it as given
C17_UpdatedAsGiven ==
    /\ Returned("update_learning")
    /\ result.args.confidence > DefaultConfidence
    /\ result.cause \in DOMAIN store
    /\ store[result.cause].confidence = result.args.confidence

\* C18: every tools/call whose params decode yields a result, whatever the
\* tool name, the arguments and the backend's outcome: with the error flag
\* and a text embedding the cause when a backend operation returned an error
\* or the tool name is unknown, and without the flag when the backend
\* succeeded.
C18_AlwaysAResult ==
    result.tool # "none" =>
       /\ ~result.aborted
       /\ err => result.isError /\ result.cause = BackendError
       /\ result.tool \notin ToolNames =>
             result.isError /\ result.cause = result.tool
       /\ (~err /\ result.tool \in ToolNames /\ result.decoded) => ~result.isError

\* C19: a tool whose arguments cannot be decoded returns an error-flagged
\* result, invokes no backend operation and leaves the store unchanged.
C19_UndecodedArguments ==
    [][ (now' = now /\ ~result'.decoded) =>
           /\ result'.isError
           /\ result'.called = << >>
           /\ store' = store
      ]_vars

\* C20: on the remote backend, when the fetch-by-id of Update fails or finds
\* no record, update_learning returns an error-flagged result.
C20_UpdateFetchFailed ==
    (/\ backend = "chroma"
     /\ result.tool = "update_learning"
     /\ result.called = <<"Update">>
     /\ result.existing = Nil) => result.isError

\* C24: Delete on an id that is not in the store returns no error and leaves
\* every stored learning unchanged, on both backends; delete_learning renders
\* the same confirmation whether or not the id existed; after it the id is
\* not stored, so that deleting twice equals deleting once.
C24_DeleteAbsent ==
    [][ (ToolStep("delete_learning") /\ result'.called = <<"Delete">>) =>
           LET id == result'.cause
           IN /\ result'.isError => err'
              /\ ~result'.isError =>
                    /\ result'.text = "deleted"
                    /\ id \notin DOMAIN store'
                    /\ store' = Without(store, id)
      ]_vars

\* C26: IncrementUseCount is fire-and-forget: when Search succeeds,
\* lookup_context gives the same result (no error flag, the text of the
\* learnings found) whether each increment succeeds or fails; a failed
\* increment writes nothing, an executed one adds one to use_count.
C26_FireAndForget ==
    [][ (ToolStep("lookup_context") /\ result'.decoded /\ ~err' /\ ~result'.aborted) =>
           /\ ~result'.isError
           /\ result'.text = (IF result'.learnings = << >>
                              THEN "No relevant learnings found"
                              ELSE "Found relevant learnings")
           /\ result'.learnings = Learnings([ i \in DOMAIN result'.learnings |->
                                                 result'.learnings[i].id ])
           /\ \A id \in result'.dropped : store'[id] = store[id]
           /\ \A id \in ResultIds(result') \ result'.dropped :
                 store'[id] = [store[id] EXCEPT !.use_count = @ + 1]
      ]_vars

\* a lookup returned two learnings; the increment of one failed and the
\* increment of the other was executed
C26_OneDropped ==
    /\ Returned("lookup_context")
    /\ Cardinality(result.dropped) = 1
    /\ \E i, j \in DOMAIN result.learnings :
          /\ result.learnings[i].id \in result.dropped
          /\ result.learnings[j].id \notin result.dropped
          /\ Stored(result.learnings[i].id).use_count = result.learnings[i].use_count
          /\ Stored(result.learnings[j].id).use_count = result.learnings[j].use_count + 1

\* C25: no retry on the remote backend: an operation sends no request to the
\* collection store twice, and a failed request during Add, Search, List,
\* Update, Delete or Stats is the operation's last and makes it return an
\* error (which the tool renders with the error flag).
C25_NoRetry ==
    LET sent == result.requests
    IN /\ \A i, j \in DOMAIN sent : sent[i].path = sent[j].path => i = j
       /\ \A i \in DOMAIN sent : ~sent[i].ok => i = Len(sent) /\ result.isError


---------------------------------------------------------------------------
(* The searches of the structured store, as the properties below name them *)

\* Search returned learnings (no error) for the query, filter and limit in
\* result.args
Searched == result.tool = "Search" /\ ~result.isError

\* the statements the last Search ran
FromIndex == result.called = <<"MATCH">>
FromFallback == result.called = <<"MATCH", "LIKE">>

\* the stored learnings the category filter admits
WithinFilter(category) ==
    { id \in DOMAIN store : category = "" \/ store[id].category = category }

\* the limit in force
LimitOf(limit) == IF limit <= 0 THEN DefaultSearchLimit ELSE limit

\* a is not ranked below b: confidence first, then use_count
NotBelow(a, b) ==
    \/ a.confidence > b.confidence
    \/ a.confidence = b.confidence /\ a.use_count >= b.use_count

\* ls is the learnings of S as stored, ranked, cut to the first lim
TopRanked(ls, S, lim) ==
    /\ \A i \in DOMAIN ls : ls[i].id \in S /\ ls[i] = Stored(ls[i].id)
    /\ \A i, j \in DOMAIN ls : ls[i].id = ls[j].id => i = j
    /\ Len(ls) = IF Cardinality(S) < lim THEN Cardinality(S) ELSE lim
    /\ \A i, j \in DOMAIN ls : i < j => NotBelow(ls[i], ls[j])
    /\ \A id \in S, i \in DOMAIN ls :
          id \notin ResultIds(result) => NotBelow(ls[i], Stored(id))

\* C30: a Search of the structured store whose query has no words returns,
\* with or without the full-text index, all learnings within the category
\* filter, ranked by confidence then use_count and cut to the limit: never
\* an empty result for a store that holds such learnings
C30_NoWords ==
    (Searched /\ Fields(result.args.query) = << >>) =>
        TopRanked(result.learnings, WithinFilter(result.args.category),
                  LimitOf(result.args.limit))

\* some word of the query is a substring of the content or the tags of id
HasWord(id, query) ==
    \E i \in DOMAIN Fields(query) :
        \/ Contains(store[id].content, Fields(query)[i])
        \/ Contains(store[id].tags, Fields(query)[i])

\* w occurs in text when letters are compared without regard to case and
\* each _ of w stands for any one character
OccursIn(text, w) ==
    \E k \in 0..(Len(Chars[text]) - Len(w)) :
        \A i \in DOMAIN w : w[i] = "_" \/ Fold(Chars[text][k + i]) = Fold(w[i])

\* some word of the query occurs so in the content or the tags of id
LikeWord(id, query) ==
    \E i \in DOMAIN Fields(query) :
        \/ OccursIn(store[id].content, Fields(query)[i])
        \/ OccursIn(store[id].tags, Fields(query)[i])

\* C27 as stated: a Search answered by the fallback returns exactly the
\* learnings within the category filter of which some word of the query is
\* a substring of content or tags, ranked by confidence then use_count and
\* cut to the limit
C27_FallbackSubstring ==
    (Searched /\ FromFallback /\ Fields(result.args.query) # << >>) =>
        TopRanked(result.learnings,
                  { id \in WithinFilter(result.args.category) :
                      HasWord(id, result.args.query) },
                  LimitOf(result.args.limit))

\* C27 amended: a Search answered by the fallback returns exactly the
\* learnings within the category filter in whose content or tags some word
\* of the query (without %) occurs as a LIKE pattern, that is without regard
\* to the case of ASCII letters and with _ for any character, ranked by
\* confidence then use_count and cut to the limit; the learnings of which a
\* word is a substring are among those
C27_FallbackLike ==
    (Searched /\ FromFallback /\ Fields(result.args.query) # << >>) =>
        /\ TopRanked(result.learnings,
                     { id \in WithinFilter(result.args.category) :
                         LikeWord(id, result.args.query) },
                     LimitOf(result.args.limit))
        /\ \A id \in DOMAIN store :
              HasWord(id, result.args.query) => LikeWord(id, result.args.query)

\* C27 witness: the fallback answered the query T2 with a learning whose
\* content holds t2, not T2, after its first word
C27_FoundWithoutCase ==
    /\ Searched /\ FromFallback
    /\ result.args.query = "T2"
    /\ \E i \in DOMAIN result.learnings : result.learnings[i].content = "c2 t2"

\* C27, further witness: the fallback answered the query c_ with two
\* learnings, neither of which holds an underscore
C27_FoundByWildcard ==
    /\ Searched /\ FromFallback
    /\ result.args.query = "c_"
    /\ Len(result.learnings) = 2

\* migrate created the index and its three triggers
IndexCreated ==
    fts.table /\ fts.triggers = { Triggers[i] : i \in DOMAIN Triggers }

\* C28: when the creation of the index failed in migrate, the backend is in
\* fallback-only mode for its lifetime: no Search attempts the MATCH query,
\* and every Search is answered by the fallback query
C28_FallbackOnly ==
    (~IndexCreated /\ result.tool = "Search") =>
        /\ \A i \in DOMAIN result.called : result.called[i] # "MATCH"
        /\ \E i \in DOMAIN result.called : result.called[i] = "LIKE"

\* C29: whenever a Search is answered from the full-text index, the index
\* holds one entry per stored row, with the row's current content, tags and
\* category, also when migrate stopped before it created all three triggers
C29_IndexInStep ==
    (result.tool = "Search" /\ FromIndex) => fts.index = SyncedIndex

---------------------------------------------------------------------------
(* The steps of the transport, as the properties below name them *)

\* this step dispatched a request: a single one, or the next of a batch
Dispatching ==
    /\ rpc'.log # << >>
    /\ \/ rpc'.kind = "single"
       \/ rpc.kind = "batch" /\ ~rpc.done /\ Len(rpc'.log) = Len(rpc.log) + 1

\* the request this step dispatched and what dispatch returned for it
DispatchedRequest == rpc'.reqs[Len(rpc'.log)]
DispatchReturned == rpc'.log[Len(rpc'.log)]

\* the response this step produced for the request it dispatched, if any
Answered ==
    IF rpc'.kind = "single" THEN rpc'.body.responses
    ELSE SubSeq(rpc'.responses, Len(rpc.responses) + 1, Len(rpc'.responses))

\* this step invoked no backend operation and no tool, and changed nothing
\* that is stored
BackendUntouched ==
    /\ store' = store /\ seq' = seq /\ incs' = incs
    /\ issued' = issued /\ gone' = gone
    /\ result' = result /\ err' = err

\* C23: a malformed envelope is answered with the code -32700, a method
\* outside the five with -32601, a tools/call whose params do not decode with
\* -32602; in these cases and for initialize, notifications/initialized, ping
\* and tools/list no backend operation is invoked and the store is unchanged
C23_TransportErrors ==
    [][ /\ (rpc'.kind = "malformed" /\ rpc' # rpc) =>
              /\ Len(rpc'.body.responses) = 1
              /\ rpc'.body.responses[1].code = ParseError
              /\ rpc'.body.responses[1].result = "nil"
              /\ BackendUntouched
        /\ Dispatching =>
              LET req == DispatchedRequest
                  Refused(code) ==
                      /\ DispatchReturned.code = code
                      /\ DispatchReturned.result = "nil"
                      /\ (req.id # NoId \/ rpc'.kind = "single") =>
                            /\ Len(Answered) = 1
                            /\ Answered[1].code = code
                            /\ Answered[1].result = "nil"
              IN /\ req.method \notin Methods => Refused(MethodNotFound)
                 /\ (req.method = "tools/call" /\ ~req.decodes) => Refused(InvalidParams)
                 /\ (req.method # "tools/call" \/ ~req.decodes) => BackendUntouched
      ]_vars

\* C23 witness: with a learning stored, a single tools/call whose params do
\* not decode was answered with -32602
C23_InvalidParamsAnswered ==
    /\ rpc.kind = "single" /\ rpc.done
    /\ rpc.reqs[1].method = "tools/call" /\ ~rpc.reqs[1].decodes
    /\ rpc.body.responses[1].code = InvalidParams
    /\ store # << >>

\* C23, further witnesses: a parse error answered; an unknown method of a
\* batch answered, after a tool call of the same batch stored a learning
C23_ParseErrorAnswered ==
    /\ rpc.kind = "malformed"
    /\ rpc.body.responses[1].code = ParseError
    /\ store # << >>

C23_UnknownMethodInBatch ==
    /\ rpc.kind = "batch" /\ rpc.done /\ Len(rpc.reqs) = 2
    /\ rpc.reqs[1].method = "tools/call" /\ rpc.reqs[1].tool = "store_learning"
    /\ rpc.reqs[2].method = "bogus/method"
    /\ Len(rpc.body.responses) = 2
    /\ rpc.body.responses[2].code = MethodNotFound
    /\ store # << >>

\* C21: a single request without an id is a notification: whatever its
\* method, known or not, it is dispatched and the server writes no response
\* body for it
C21_NotificationNoBody ==
    (rpc.kind = "single" /\ rpc.done /\ rpc.reqs[1].id = NoId) =>
        /\ Len(rpc.log) = 1
        /\ rpc.body = NoBody

\* the positions of the elements of a batch that carry an id, in order
Identified(reqs) ==
    SelectSeq([ i \in DOMAIN reqs |-> i ], LAMBDA i : reqs[i].id # NoId)

\* C22: when a batch has been handled, every element was dispatched, once
\* and in array order, the failing ones and those after them included, and
\* the response array holds one response per element with an id, in the
\* same order, each with the id of its element and the result or error its
\* dispatch returned
C22_BatchResponses ==
    (rpc.kind = "batch" /\ rpc.done) =>
        LET at == Identified(rpc.reqs)
        IN /\ Len(rpc.log) = Len(rpc.reqs)
           /\ \A i \in DOMAIN rpc.log :
                 /\ rpc.reqs[i].method \notin Methods => rpc.log[i].code = MethodNotFound
                 /\ rpc.reqs[i].method = "tools/call" =>
                       \/ rpc.log[i].code = InvalidParams /\ ~rpc.reqs[i].decodes
                       \/ rpc.log[i].result = "ToolResult" /\ rpc.reqs[i].decodes
           /\ rpc.body.encoding \in {"array", "null"}
           /\ Len(rpc.body.responses) = Len(at)
           /\ \A k \in DOMAIN at :
                 LET resp == rpc.body.responses[k]
                     out == rpc.log[at[k]]
                 IN /\ resp.id = rpc.reqs[at[k]].id
                    /\ resp.code = out.code
                    /\ out.code = 0 =>
                          /\ resp.result = out.result
                          /\ resp.isError = out.isError
                          /\ resp.text = out.text

\* C36: List returns the limit most recently updated learnings the category
\* filter admits, on both backends: as many as the limit allows, and no
\* learning left out was updated later than one that is returned
C36_ListMostRecent ==
    Returned("list_learnings") =>
       LET ls == result.learnings
           limit == IF result.args.limit <= 0 THEN DefaultListLimit
                    ELSE result.args.limit
           matching == { id \in DOMAIN store :
                           \/ result.args.category = ""
                           \/ store[id].category = result.args.category }
       IN /\ ResultIds(result) \subseteq matching
          /\ Len(ls) = IF Cardinality(matching) < limit THEN Cardinality(matching)
                       ELSE limit
          /\ \A id \in matching \ ResultIds(result), i \in DOMAIN ls :
                Stored(id).updated_at <= ls[i].updated_at

---------------------------------------------------------------------------
(* The remote backend and its collaborators                                *)

\* the requests of the last operation sent to a path ending in suffix
RequestsTo(path) == SelectSeq(result.requests, LAMBDA q : q.path = path)

\* the last operation of the remote backend was op
RemoteReturned(op) == result.tool = op

\* C34: every path of the remote Search returns learnings or an error: for
\* every query response that parses, also one whose documents or metadatas
\* are absent or shorter than its ids, Search returns one learning per id or
\* an error, and never aborts
C34_SearchReturns ==
    (RemoteReturned("Search") /\ result.text # "failed") =>
       /\ ~result.aborted
       /\ \/ result.isError
          \/ Len(result.learnings) = Len(result.passed[1].ids)

\* C31: the remote Search sends exactly one query request, which carries
\* either a vector or the query text: the vector exactly when a model is
\* configured and the embedding service answered with one; without a model
\* it does not call the embedding service; and Search returns an error only
\* for what the collection store answered to the query
C31_VectorOrText ==
    RemoteReturned("Search") =>
       LET query == RequestsTo("/query")
           embedding == RequestsTo("/api/embeddings")
       IN /\ Len(query) = 1
          /\ Len(result.requests) = Len(query) + Len(embedding)
          /\ Len(embedding) = IF remote.model THEN 1 ELSE 0
          /\ query[1].carries \in {"vector", "text"}
          /\ query[1].carries = "vector" <=>
                (remote.model /\ embedding[1].ok)
          /\ result.isError => result.text \in {"failed", "unparseable"}

\* C32: the remote Add succeeds exactly when its write to the collection store
\* does: it sends one write; when the write succeeds it returns the new
\* learning, which is stored, and a failed embedding leaves the write without a
\* vector; when the write fails it returns an error and the collection is as
\* it was
C32_AddIffWritten ==
    [][ result'.tool = "Add" =>
           LET write == SelectSeq(result'.requests, LAMBDA q : q.path = "/add")
               embedding == SelectSeq(result'.requests,
                                      LAMBDA q : q.path = "/api/embeddings")
           IN /\ Len(write) = 1
              /\ result'.isError <=> ~write[1].ok
              /\ write[1].ok =>
                    /\ Len(result'.learnings) = 1
                    /\ result'.learnings[1].id \in DOMAIN store'
                    /\ result'.learnings[1].content =
                          store'[result'.learnings[1].id].content
              /\ (embedding # << >> /\ ~embedding[1].ok) =>
                    write[1].carries = "no vector"
              /\ (embedding = << >>) => write[1].carries = "no vector"
              /\ ~write[1].ok => store' = store ]_vars

\* the metadata map chromaGetToLearnings decodes for the i-th id of a response
MetaAt(resp, i) ==
    IF i <= Len(resp.metadatas) THEN resp.metadatas[i] ELSE EmptyMeta

\* C35: decoding the metadata of a remote record is total and field by field:
\* every List whose response parses returns one learning per id; a field
\* holds the value of its metadata key when that has the expected type (a
\* use_count number holding an integer is that integer) and the zero value
\* when the key is absent or of another type, whatever the other keys hold
C35_DecodeFieldwise ==
    (RemoteReturned("List") /\ ~result.isError) =>
       LET resp == result.passed[1]
           ls == result.learnings
       IN /\ ~result.aborted
          /\ Len(ls) = Len(resp.ids)
          /\ \A i \in DOMAIN resp.ids : \E j \in DOMAIN ls :
                LET meta == MetaAt(resp, i)
                    l == ls[j]
                IN /\ l.id = resp.ids[i]
                   /\ l.category = IF meta.category.type = "string"
                                   THEN meta.category.value ELSE ""
                   /\ l.tags = IF meta.tags.type = "string"
                               THEN meta.tags.value ELSE ""
                   /\ l.confidence = IF meta.confidence.type = "number"
                                     THEN meta.confidence.tenths ELSE 0
                   /\ (meta.use_count.type = "number"
                          /\ meta.use_count.tenths % 10 = 0) =>
                         l.use_count * 10 = meta.use_count.tenths
                   /\ meta.use_count.type # "number" => l.use_count = 0
                   /\ l.created_at = IF meta.created_at.type = "timestamp"
                                     THEN meta.created_at.value * TicksPerSec
                                     ELSE ZeroTime
                   /\ l.updated_at = IF meta.updated_at.type = "timestamp"
                                     THEN meta.updated_at.value * TicksPerSec
                                     ELSE ZeroTime

\* a List decoded a record whose category is a number and whose update time
\* is absent, and whose use_count is the number 2.0
C35_OtherFieldsDecoded ==
    /\ RemoteReturned("List") /\ ~result.isError
    /\ result.passed[1].metadatas # << >>
    /\ result.passed[1].metadatas[1].category.type = "number"
    /\ result.passed[1].metadatas[1].updated_at.type = "absent"
    /\ result.passed[1].metadatas[1].use_count = Num(20)
    /\ result.learnings[1].category = ""
    /\ result.learnings[1].tags = "t1"
    /\ result.learnings[1].use_count = 2
    /\ result.learnings[1].updated_at = ZeroTime

(* Resolving the collection                                                *)

\* the construction of instance i returned without error
ConstructedOK(r, i) == r.constructed[i] = "ok"

\* C33: two remote backends constructed at once against a store without the
\* collection, whose create request gets the collection when it exists: in
\* every interleaving of their list and create requests, a construction
\* fails only when its create request did (no construction fails for what the
\* other did); the instances constructed hold the same identifier, that of
\* the one collection of the configured name; and the identifier of an
\* instance does not change after its construction
C33_OneCollection ==
    [][ /\ \A i \in Instances :
              remote'.constructed[i] = "error" =>
                 remote'.cause[i] \in {"failed", "unparseable", "lost"}
        /\ \A i, j \in Instances :
              (ConstructedOK(remote', i) /\ ConstructedOK(remote', j)) =>
                 remote'.collectionID[i] = remote'.collectionID[j]
        /\ \A i \in Instances :
              ConstructedOK(remote', i) =>
                 /\ \E c \in Named(remote'.collections, Collection) :
                       c.id = remote'.collectionID[i]
                 /\ remote'.used[i] \subseteq {remote'.collectionID[i]}
        /\ Cardinality(Named(remote'.collections, Collection)) <= 1
        /\ \A c, d \in remote'.collections : c.id = d.id => c = d
        /\ \A i \in Instances :
              ConstructedOK(remote, i) =>
                 /\ ConstructedOK(remote', i)
                 /\ remote'.collectionID[i] = remote.collectionID[i] ]_vars

\* both instances listed before either created, both sent the create request,
\* both are constructed and have used their collection
C33_BothCreated ==
    /\ \A i \in Instances :
          /\ ConstructedOK(remote, i)
          /\ remote.posted[i]
          /\ remote.list[i] = "parsed"
          /\ remote.used[i] # {}
    /\ remote.collectionID[1] = remote.collectionID[2]
    /\ Cardinality(remote.collections) = 2

=============================================================================
